---- MODULE Spec2Model ----
(***************************************************************************)
(* PostItApp: the synchronisation and merge subsystem.                     *)
(*                                                                         *)
(*   services/googleDrive.ts   GoogleDriveService (remote store adapter    *)
(*                             and merge engine)                           *)
(*   hooks/useGoogleDriveSync  the sync orchestrator hook                  *)
(*   context/PostItContext     the note collection reducer                 *)
(*                                                                         *)
(* SpecMerge exercises the pure function mergePostIts on bounded inputs.   *)
(* Spec is the orchestrator hook running against one remote Drive store.   *)
(***************************************************************************)
EXTENDS Integers, Sequences, FiniteSets, TLC

(***************************************************************************)
(* Bounds                                                                  *)
(***************************************************************************)
\* number of distinct note ids
MaxNotes == 2
\* largest value of the clock (Date.now()) and of a note's updatedAt
MaxTime == 2

Ids == 1..MaxNotes
Texts == {"a", "b"}
Times == 1..MaxTime

(***************************************************************************)
(* Note model (types/PostIt.ts).  text stands for the whole user content   *)
(* of a note (text, color, size, position).                                *)
(***************************************************************************)
PostIt == [id : Ids, text : Texts, updatedAt : Times]

\* the ids of a sequence of notes
IdsOf(s) == {s[i].id : i \in DOMAIN s}

\* a collection holds each id at most once
UniqueIds(s) == \A i, j \in DOMAIN s : s[i].id = s[j].id => i = j

\* all collections of at most n notes with unique ids
Collections(n) ==
    {s \in UNION {[1..k -> PostIt] : k \in 0..n} : UniqueIds(s)}

\* a collection read as an id-keyed mapping: the set of its notes
AsSet(s) == {s[i] : i \in DOMAIN s}

(***************************************************************************)
(* JavaScript Map<string, PostIt>, kept as the sequence of its values in   *)
(* insertion order.                                                        *)
(***************************************************************************)
MapHas(m, id) == \E i \in DOMAIN m : m[i].id = id

MapGet(m, id) == m[CHOOSE i \in DOMAIN m : m[i].id = id]

MapSet_append(m, p) == Append(m, p)

\* Map.set: replaces the value of an existing key in place, else appends
MapSet(m, p) ==
    IF MapHas(m, p.id)
    THEN [i \in DOMAIN m |-> IF m[i].id = p.id THEN p ELSE m[i]]
    ELSE Append(m, p)

(***************************************************************************)
(* GoogleDriveService.mergePostIts                                         *)
(***************************************************************************)
\* variants of the comparison and of the merge step with a defect
LocalIsNewer_tie(l, r) == l.updatedAt >= r.updatedAt

LocalIsNewer_always(l, r) == TRUE

\* the comparison of line 308
LocalIsNewer(l, r) == l.updatedAt > r.updatedAt

MergeStep_dropLocalOnly(m, l) ==
    IF ~MapHas(m, l.id) THEN m
    ELSE IF LocalIsNewer(l, MapGet(m, l.id)) THEN MapSet(m, l)
    ELSE m

MergeStep_fieldMix(m, l) ==
    IF ~MapHas(m, l.id) THEN MapSet(m, l)
    ELSE IF LocalIsNewer(l, MapGet(m, l.id))
         THEN MapSet(m, [MapGet(m, l.id) EXCEPT !.text = l.text])
    ELSE m

\* the body of local.forEach (lines 302-313)
MergeStep(m, l) ==
    IF ~MapHas(m, l.id) THEN MapSet(m, l)
    ELSE IF LocalIsNewer(l, MapGet(m, l.id)) THEN MapSet(m, l)
    ELSE m

\* remote.forEach(postIt => mergedMap.set(postIt.id, postIt))
RECURSIVE SeedRemote(_, _)
SeedRemote(m, remote) ==
    IF remote = <<>> THEN m
    ELSE SeedRemote(MapSet(m, Head(remote)), Tail(remote))

RECURSIVE MergeLocal(_, _)
MergeLocal(m, local) ==
    IF local = <<>> THEN m
    ELSE MergeLocal(MergeStep(m, Head(local)), Tail(local))

mergePostIts(local, remote) == MergeLocal(SeedRemote(<<>>, remote), local)

(***************************************************************************)
(* Bounds of the orchestrator specification                                *)
(***************************************************************************)
\* syncNow invocations that may be suspended at the same time
MaxCalls == 2
\* pending 3-second status-revert timers
MaxRevertTimers == 1
\* user gestures on the settings screen in one run
MaxGestures == 2
\* manual uploadBackup and downloadBackup requests in one run
MaxManualOps == 1
\* user edits of the note collection in one run
MaxEdits == 1
\* reducer actions dispatched to the note collection in one run
MaxDispatch == 2
\* syncs each device starts before the two devices settle
MaxDevSyncs == 1
\* how far around each limit the arguments of the clamp functions are taken
MaxOver == 1

(***************************************************************************)
(* Values of the sync state (types/Sync.ts)                                *)
(***************************************************************************)
IDLE == "IDLE"
SYNCING == "SYNCING"
SUCCESS == "SUCCESS"
ERROR == "ERROR"

\* lastSyncAt: null is written 0 (the clock starts at 1, and the code tests
\* the value for truthiness only)
NoSync == 0

NoUser == "null"
TheUser == "user"
NoError == "null"

initialSyncState ==
    [status |-> IDLE, lastSyncAt |-> NoSync, isConnected |-> FALSE,
     user |-> NoUser, autoSyncEnabled |-> TRUE, error |-> NoError]

\* the points at which a Drive request sequence can fail
\*   "folder"  the folder search or creation request (getOrCreateFolder)
\*   "find"    the backup file search (findBackupFile)
\*   "content" the fetch or the write of the file content
FailPoints == {"none", "folder", "find", "content"}

\* what GoogleDriveService.downloadBackup returns: null or the backup
NullBackup == [found |-> FALSE, postIts |-> <<>>]

\* conflictsResolved is an optional field: absent is written -1
NoCount == -1

\* a syncNow invocation slot that is not running.  hadFile, before and
\* downloadFailed record what the download met on Drive.
IdleCall ==
    [pc |-> "idle", local |-> <<>>, backup |-> NullBackup,
     hadFile |-> FALSE, before |-> <<>>, downloadFailed |-> FALSE,
     newLastSync |-> NoSync]

\* the value handed back by the call that returned in the last step, with
\* what that call was given (local, the Drive file it met, the sync state
\* and the deleted ids before it returned)
NoReturn ==
    [op |-> "none", success |-> FALSE, message |-> "none",
     postIts |-> <<>>, conflictsResolved |-> NoCount,
     local |-> <<>>, hadFile |-> FALSE, before |-> <<>>,
     downloadFailed |-> FALSE, lastSyncBefore |-> NoSync, deleted |-> {}]

(***************************************************************************)
(* State                                                                   *)
(***************************************************************************)
VARIABLES
    \* SpecMerge: the two arguments and which applications have been made
    mLocal, mRemote, mDone, mAB, mBA, mABB, mAAB,
    \* Date.now()
    now,
    \* the note collection handed to the hook (PostItState.postIts)
    postIts,
    \* ids removed by DELETE_POSTIT and not in the collection since
    deletedIds,
    \* number of user edits made so far
    edits,
    \* useState<SyncState>
    syncState,
    \* isSyncingRef.current, previousPostItsRef.current
    isSyncingRef, previousPostItsRef,
    \* pending timers: the 5 s debounce (autoSyncTimeoutRef), the 3 s status
    \* reverts, the 500 ms post-sign-in sync
    autoSyncTimer, revertTimers, signInTimer,
    \* the suspended syncNow invocations and a signIn awaiting the provider
    calls, signInPending,
    \* the mount effects that have not completed (line 362)
    mountPending,
    \* AsyncStorage: the settings blob and the last-sync key; the stored
    \* OAuth tokens
    storedAuto, storedLastSync, hasToken,
    \* Google Drive: number of PostItApp folders, contents of the backup files
    folders, files,
    \* the value returned in the last step
    returned,
    \* the hook's uploadBackup and downloadBackup calls awaiting Drive, and
    \* the number of such requests made so far
    uploadCall, downloadCall, manualOps,
    \* SyncProvider: useState<SyncState>, useState(false) isSyncing, the
    \* values of the render whose callbacks the screen holds, its suspended
    \* syncNow calls, its 3 s timers, a signIn awaiting the provider, the
    \* 500 ms timer of handleSignIn, the pending mount effects and initAuth
    pSyncState, pIsSyncing, pRendered, pCalls, pRevertTimers, pSignInPending,
    pSignInTimer, pMountPending,
    \* number of user gestures made on the settings screen so far
    pGestures,
    \* PostItProvider: the reducer state (useReducer), the note collection in
    \* AsyncStorage, whether the load at mount is still awaited, the number
    \* of actions dispatched and of notes created
    state, storedPostIts, loadPending, dispatched, created,
    \* two installations on one Drive account: each one's note collection,
    \* its syncPostIts call, the syncs it has started, and the order of the
    \* non-overlapping syncs made once both have stopped editing
    devNotes, devCalls, devSyncs, settled,
    \* the collection given to the last successful uploadBackup, until
    \* another writer changes the Drive file
    uploaded,
    \* Drive with its requests one by one: the folder each backup file is
    \* in, and the syncPostIts calls of callers that may overlap
    fileParents, upCalls,
    \* the arguments of a clampPosition or clampSize call and its result
    clampArgs, clamped

mergeVars == <<mLocal, mRemote, mDone, mAB, mBA, mABB, mAAB>>

noteVars == <<postIts, deletedIds, edits>>

timerVars == <<autoSyncTimer, revertTimers, signInTimer>>

storageVars == <<storedAuto, storedLastSync>>

driveVars == <<folders, files>>

hookVars ==
    <<now, noteVars, syncState, isSyncingRef, previousPostItsRef, timerVars,
      calls, signInPending, mountPending, storageVars, hasToken, driveVars,
      returned>>

manualVars == <<uploadCall, downloadCall, manualOps>>

provVars ==
    <<pSyncState, pIsSyncing, pRendered, pCalls, pRevertTimers,
      pSignInPending, pSignInTimer, pMountPending, pGestures>>

ctxVars == <<state, storedPostIts, loadPending, dispatched, created>>

devVars == <<devNotes, devCalls, devSyncs, settled>>

\* the variables of the specifications that run beside the orchestrator
raceVars == <<fileParents, upCalls>>

utilVars == <<clampArgs, clamped>>

extraVars == <<raceVars, utilVars>>

otherVars == <<ctxVars, devVars, uploaded, extraVars>>

\* what the actions of the hook's sync path leave alone
restVars == <<mergeVars, manualVars, provVars, otherVars>>

vars == <<mergeVars, hookVars, manualVars, provVars, otherVars>>

\* the two installations
Devices == {1, 2}

\* PostItContext initialState (idx-template.nix lines 77-81); selectedId
\* null is written 0
NoSelection == 0

initialState == [postIts |-> <<>>, selectedId |-> NoSelection, maxZIndex |-> 0]

\* PostItProvider as constructed
CtxAtRest ==
    /\ state = initialState
    /\ storedPostIts = <<>>
    /\ loadPending = FALSE
    /\ dispatched = 0
    /\ created = 0

\* a syncPostIts call of a device that is not running
NoDevCall == [pc |-> "idle", local |-> <<>>, backup |-> NullBackup]

DevAtRest ==
    /\ devNotes = [d \in Devices |-> <<>>]
    /\ devCalls = [d \in Devices |-> NoDevCall]
    /\ devSyncs = [d \in Devices |-> 0]
    /\ settled = <<>>

\* no upload of this client is the last write of the Drive file
NoUpload == [set |-> FALSE, postIts |-> <<>>]

\* a syncPostIts call that is not running: the request it is at, whether
\* it is in downloadBackup or in uploadBackup, the folder and the file its
\* searches returned (0: none), the collection it was given, what it will
\* upload, and the number of calls made
NoUpCall ==
    [pc |-> "idle", phase |-> "download", folderId |-> 0, fileId |-> 0,
     local |-> <<>>, data |-> <<>>, runs |-> 0]

RaceAtRest ==
    /\ fileParents = <<>>
    /\ upCalls = [d \in Devices |-> NoUpCall]

\* no clamp call made
NoClampArgs ==
    [position |-> [x |-> [nan |-> FALSE, v |-> 0],
                   y |-> [nan |-> FALSE, v |-> 0]],
     size |-> [width |-> [nan |-> FALSE, v |-> 0],
               height |-> [nan |-> FALSE, v |-> 0]],
     containerWidth |-> [nan |-> FALSE, v |-> 0],
     containerHeight |-> [nan |-> FALSE, v |-> 0]]

\* no clamp call has returned; a and b are the two numbers of a result
NoClamped ==
    [op |-> "none", a |-> [nan |-> FALSE, v |-> 0],
     b |-> [nan |-> FALSE, v |-> 0]]

UtilAtRest ==
    /\ clampArgs = NoClampArgs
    /\ clamped = NoClamped

ExtraAtRest ==
    /\ RaceAtRest
    /\ UtilAtRest

OthersAtRest ==
    /\ CtxAtRest
    /\ DevAtRest
    /\ uploaded = NoUpload
    /\ ExtraAtRest

\* SpecMerge before its inputs are drawn
MergeAtRest ==
    /\ mLocal = <<>>
    /\ mRemote = <<>>
    /\ mDone = {}
    /\ mAB = <<>>
    /\ mBA = <<>>
    /\ mABB = <<>>
    /\ mAAB = <<>>

\* a manual uploadBackup or downloadBackup call that is not running
NoManual == [pc |-> "idle", local |-> <<>>]

ManualAtRest ==
    /\ uploadCall = NoManual
    /\ downloadCall = NoManual
    /\ manualOps = 0

\* the closure values of the first render of SyncProvider
FirstRender == [isSyncing |-> FALSE, isConnected |-> FALSE, status |-> IDLE]

\* what a handler of SettingsScreen holds while it is suspended: whether one
\* is suspended, the closure values of the syncNow it was rendered with and
\* the state.postIts of that render
NoClosure ==
    [set |-> FALSE, isSyncing |-> FALSE, isConnected |-> FALSE,
     postIts |-> <<>>]

\* SyncProvider as constructed, before its mount effect has run
ProviderAtRest ==
    /\ pSyncState = initialSyncState
    /\ pIsSyncing = FALSE
    /\ pRendered = FirstRender
    /\ pCalls = [c \in 1..MaxCalls |-> IdleCall]
    /\ pRevertTimers = 0
    /\ pSignInPending = NoClosure
    /\ pSignInTimer = NoClosure
    /\ pMountPending = {}
    /\ pGestures = 0

\* the orchestrator as constructed, before any input
HookAtRest ==
    /\ now = 1
    /\ postIts = <<>>
    /\ deletedIds = {}
    /\ edits = 0
    /\ syncState = initialSyncState
    /\ isSyncingRef = FALSE
    /\ previousPostItsRef = <<>>
    /\ autoSyncTimer = FALSE
    /\ revertTimers = 0
    /\ signInTimer = FALSE
    /\ calls = [c \in 1..MaxCalls |-> IdleCall]
    /\ signInPending = FALSE
    /\ mountPending = {}
    /\ storedAuto = "absent"
    /\ storedLastSync = NoSync
    /\ hasToken = FALSE
    /\ folders = 0
    /\ files = <<>>
    /\ returned = NoReturn
    /\ ManualAtRest
    /\ ProviderAtRest

(***************************************************************************)
(* SpecMerge: mergePostIts applied to every pair of bounded collections    *)
(***************************************************************************)
MergeInit ==
    /\ mLocal \in Collections(MaxNotes)
    /\ mRemote \in Collections(MaxNotes)
    /\ mDone = {}
    /\ mAB = <<>>
    /\ mBA = <<>>
    /\ mABB = <<>>
    /\ mAAB = <<>>
    /\ HookAtRest
    /\ OthersAtRest

\* merge(local, remote)
ApplyMerge ==
    /\ "AB" \notin mDone
    /\ mAB' = mergePostIts(mLocal, mRemote)
    /\ mDone' = mDone \cup {"AB"}
    /\ UNCHANGED <<mLocal, mRemote, mBA, mABB, mAAB, hookVars,
                   manualVars, provVars, otherVars>>

\* merge(remote, local): the arguments in swapped roles
ApplyMergeSwapped ==
    /\ "BA" \notin mDone
    /\ mBA' = mergePostIts(mRemote, mLocal)
    /\ mDone' = mDone \cup {"BA"}
    /\ UNCHANGED <<mLocal, mRemote, mAB, mABB, mAAB, hookVars,
                   manualVars, provVars, otherVars>>

\* merge(merge(local, remote), remote)
ApplyMergeAgainRemote ==
    /\ "AB" \in mDone
    /\ "ABB" \notin mDone
    /\ mABB' = mergePostIts(mAB, mRemote)
    /\ mDone' = mDone \cup {"ABB"}
    /\ UNCHANGED <<mLocal, mRemote, mAB, mBA, mAAB, hookVars,
                   manualVars, provVars, otherVars>>

\* merge(local, merge(local, remote))
ApplyMergeAgainLocal ==
    /\ "AB" \in mDone
    /\ "AAB" \notin mDone
    /\ mAAB' = mergePostIts(mLocal, mAB)
    /\ mDone' = mDone \cup {"AAB"}
    /\ UNCHANGED <<mLocal, mRemote, mAB, mBA, mABB, hookVars,
                   manualVars, provVars, otherVars>>

MergeNext ==
    \/ ApplyMerge
    \/ ApplyMergeSwapped
    \/ ApplyMergeAgainRemote
    \/ ApplyMergeAgainLocal

SpecMerge == MergeInit /\ [][MergeNext]_vars

(***************************************************************************)
(* GoogleDriveService against the Drive store.  One request sequence       *)
(* (folder, file search, content) is one step; f is the point at which it  *)
(* fails.                                                                  *)
(***************************************************************************)
\* getAuthHeaders throws without a token; the folder search or creation
\* request may be refused
FolderStepFails(f) == ~hasToken \/ f = "folder"

\* getOrCreateFolder: creates the folder only when the search finds none
FoldersAfter(f) ==
    IF FolderStepFails(f) THEN folders
    ELSE IF folders = 0 THEN 1 ELSE folders

\* downloadBackup: every error is caught and turned into null
DownloadFailed(f) ==
    \/ FolderStepFails(f)
    \/ f = "find"
    \/ (files # <<>> /\ f = "content")

DownloadResult(f) ==
    IF DownloadFailed(f) \/ files = <<>> THEN NullBackup
    ELSE [found |-> TRUE, postIts |-> files[1]]

\* uploadBackup: PATCH of the first file found, else POST of a new file
UploadSucceeds(f) == ~FolderStepFails(f) /\ f \notin {"find", "content"}

FilesAfterUpload_alwaysCreate(notes, f) ==
    IF ~UploadSucceeds(f) THEN files ELSE Append(files, notes)

FilesAfterUpload(notes, f) ==
    IF ~UploadSucceeds(f) THEN files
    ELSE IF files = <<>> THEN <<notes>>
    ELSE [files EXCEPT ![1] = notes]

Abs(x) == IF x < 0 THEN -x ELSE x

Max(x, y) == IF x > y THEN x ELSE y

\* line 266: |merged.length - max(local.length, remote.length)|
ConflictsResolved(local, remote, merged) ==
    Abs(Len(merged) - Max(Len(local), Len(remote)))

\* variant that uploads the local collection without merging
SyncUploadData_localOnly(local, backup) == local

\* what syncPostIts uploads once the download has returned
SyncUploadData(local, backup) ==
    IF ~backup.found THEN local ELSE mergePostIts(local, backup.postIts)

\* variant that does not take success from the upload result
SyncResultOf_ignoreUpload(local, backup, uploadOk) ==
    [success |-> TRUE, postIts |-> local,
     conflictsResolved |-> NoCount, message |-> "Initial backup created"]

\* what syncPostIts returns once the upload has returned
SyncResultOf(local, backup, uploadOk) ==
    IF ~backup.found
    THEN [success |-> uploadOk, postIts |-> local,
          conflictsResolved |-> NoCount,
          message |-> "Initial backup created"]
    ELSE [success |-> uploadOk,
          postIts |-> SyncUploadData(local, backup),
          conflictsResolved |->
              ConflictsResolved(local, backup.postIts,
                                SyncUploadData(local, backup)),
          message |-> "Sync completed"]

(***************************************************************************)
(* useGoogleDriveSync                                                      *)
(***************************************************************************)
\* the auto-sync effect (lines 368-397): whether a debounce timer is pending
\* after the effect has run
AutoSyncEffect_allowEmpty(ss, posts, prev) ==
    /\ ss.isConnected
    /\ ss.autoSyncEnabled
    /\ ss.status # SYNCING
    /\ posts # prev

AutoSyncEffect(ss, posts, prev) ==
    /\ ss.isConnected
    /\ ss.autoSyncEnabled
    /\ ss.status # SYNCING
    /\ posts # prev
    /\ Len(posts) > 0

\* the effect runs again when one of its dependencies changed: cleanup
\* clears the pending timer, the body may set a new one
TimerAfter(timer, ssNew, replaced, postsNew, prevNew) ==
    IF \/ replaced
       \/ ssNew.isConnected # syncState.isConnected
       \/ ssNew.autoSyncEnabled # syncState.autoSyncEnabled
       \/ ssNew.status # syncState.status
    THEN AutoSyncEffect(ssNew, postsNew, prevNew)
    ELSE timer

ActiveCalls == {c \in 1..MaxCalls : calls[c].pc # "idle"}

\* the syncPostIts calls that have not returned yet
InFlight == {c \in 1..MaxCalls : calls[c].pc \in {"download", "upload"}}

FreeSlot == CHOOSE c \in 1..MaxCalls :
                /\ calls[c].pc = "idle"
                /\ \A d \in 1..MaxCalls : calls[d].pc = "idle" => c <= d

\* the guard of syncNow (line 176)
SyncGuard_noFlag(conn) == ~conn

SyncGuard(conn) == isSyncingRef \/ ~conn

\* what syncNow returns when its guard refuses (lines 177-183)
Refusal(conn) ==
    [NoReturn EXCEPT !.op = "syncNow",
                     !.message = IF conn THEN "Sync already in progress"
                                 ELSE "Not connected to Google"]

\* syncNow up to its first suspension point (lines 175-194); conn and posts
\* are the values its closure holds, timer the debounce timer as the caller
\* left it
SyncNow(conn, posts, timer) ==
    /\ IF SyncGuard(conn)
       THEN /\ returned' = Refusal(conn)
            /\ autoSyncTimer' = timer
            /\ UNCHANGED <<syncState, isSyncingRef, calls>>
       ELSE /\ ActiveCalls # 1..MaxCalls
            /\ isSyncingRef' = TRUE
            /\ syncState' = [syncState EXCEPT !.status = SYNCING,
                                              !.error = NoError]
            /\ calls' = [calls EXCEPT ![FreeSlot] =
                            [IdleCall EXCEPT !.pc = "download",
                                             !.local = posts]]
            /\ autoSyncTimer' =
                   TimerAfter(timer, syncState', FALSE, postIts,
                              previousPostItsRef)
            /\ returned' = NoReturn
    /\ UNCHANGED <<now, noteVars, previousPostItsRef, revertTimers,
                   signInPending, mountPending, storageVars, hasToken,
                   driveVars, restVars>>

\* the user presses "sync now"
ManualSyncNow ==
    /\ SyncNow(syncState.isConnected, postIts, autoSyncTimer)
    /\ UNCHANGED signInTimer

\* the 5 s debounce timer fires (line 387)
AutoSyncTimerFire ==
    /\ autoSyncTimer
    /\ SyncNow(syncState.isConnected, postIts, FALSE)
    /\ UNCHANGED signInTimer

\* AppState change to 'active' (lines 401-410)
AppForeground ==
    /\ syncState.isConnected
    /\ syncState.autoSyncEnabled
    /\ SyncNow(syncState.isConnected, postIts, autoSyncTimer)
    /\ UNCHANGED signInTimer

\* the 500 ms timer set by signIn fires (line 132).  signIn is memoised with
\* no dependencies, so the syncNow it calls is the one of the first render,
\* whose closure holds the initial sync state and the first (empty) note
\* collection.
SignInTimerFire ==
    /\ signInTimer
    /\ signInTimer' = FALSE
    /\ SyncNow(initialSyncState.isConnected, <<>>, autoSyncTimer)

\* the await of GoogleDriveService.syncPostIts, first half: downloadBackup
SyncDownload(c, f) ==
    /\ calls[c].pc = "download"
    /\ folders' = FoldersAfter(f)
    /\ calls' = [calls EXCEPT ![c] =
            [@ EXCEPT !.pc = "upload",
                      !.backup = DownloadResult(f),
                      !.hadFile = (files # <<>>),
                      !.before = IF files # <<>> THEN files[1] ELSE <<>>,
                      !.downloadFailed = DownloadFailed(f)]]
    /\ returned' = NoReturn
    /\ UNCHANGED <<now, noteVars, syncState, isSyncingRef,
                   previousPostItsRef, timerVars, signInPending,
                   mountPending, storageVars, hasToken, files, restVars>>

\* second half: uploadBackup returns, syncPostIts returns, and syncNow runs
\* on to its next suspension point (lines 196-212) or to its end
SyncUpload(c, f) ==
    LET call == calls[c]
        result == SyncResultOf(call.local, call.backup, UploadSucceeds(f))
    IN  /\ call.pc = "upload"
        /\ result.success \/ revertTimers < MaxRevertTimers
        /\ folders' = FoldersAfter(f)
        /\ files' = FilesAfterUpload(SyncUploadData(call.local, call.backup), f)
        /\ returned' =
              [op |-> "syncPostIts", success |-> result.success,
               message |-> result.message, postIts |-> result.postIts,
               conflictsResolved |-> result.conflictsResolved,
               local |-> call.local, hadFile |-> call.hadFile,
               before |-> call.before,
               downloadFailed |-> call.downloadFailed,
               lastSyncBefore |-> syncState.lastSyncAt,
               deleted |-> deletedIds]
        /\ postIts' = IF result.success THEN result.postIts ELSE postIts
        /\ deletedIds' = deletedIds \ IdsOf(postIts')
        /\ previousPostItsRef' =
              IF result.success THEN result.postIts ELSE previousPostItsRef
        /\ syncState' =
              [syncState EXCEPT
                  !.status = IF result.success THEN SUCCESS ELSE ERROR,
                  !.lastSyncAt = IF result.success THEN now ELSE @,
                  !.error = IF result.success THEN NoError
                            ELSE result.message]
        /\ autoSyncTimer' =
              TimerAfter(autoSyncTimer, syncState', result.success, postIts',
                         previousPostItsRef')
        /\ IF result.success
           THEN /\ calls' = [calls EXCEPT ![c] =
                       [@ EXCEPT !.pc = "saving", !.newLastSync = now]]
                /\ UNCHANGED <<isSyncingRef, revertTimers>>
           ELSE /\ calls' = [calls EXCEPT ![c] = IdleCall]
                /\ revertTimers' = revertTimers + 1
                /\ isSyncingRef' = FALSE
        /\ UNCHANGED <<now, edits, signInTimer, signInPending, mountPending,
                       storageVars, hasToken, restVars>>

\* saveSyncSettings({lastSyncAt}) returns (lines 73-92: the settings blob is
\* rewritten from settings.autoSyncEnabled, here undefined), then the revert
\* timer is set and the finally block releases the guard (lines 214-237)
SyncSaved(c, f) ==
    /\ calls[c].pc = "saving"
    /\ revertTimers < MaxRevertTimers
    /\ storedAuto' = IF f = "settings" THEN storedAuto ELSE "absent"
    /\ storedLastSync' = IF f = "none" THEN calls[c].newLastSync
                         ELSE storedLastSync
    /\ revertTimers' = revertTimers + 1
    /\ isSyncingRef' = FALSE
    /\ calls' = [calls EXCEPT ![c] = IdleCall]
    /\ returned' = NoReturn
    /\ UNCHANGED <<now, noteVars, syncState, previousPostItsRef,
                   autoSyncTimer, signInTimer, signInPending, mountPending,
                   hasToken, driveVars, restVars>>

\* an action that changes the sync state only: the hook re-renders and the
\* auto-sync effect runs if one of its dependencies changed
SyncStateOnly ==
    /\ autoSyncTimer' =
           TimerAfter(autoSyncTimer, syncState', FALSE, postIts,
                      previousPostItsRef)
    /\ returned' = NoReturn
    /\ UNCHANGED <<now, noteVars, isSyncingRef, previousPostItsRef, calls,
                   driveVars, restVars>>

\* a 3 s timer fires: status back to IDLE (lines 215-220)
RevertTimerFire ==
    /\ revertTimers > 0
    /\ revertTimers' = revertTimers - 1
    /\ syncState' = [syncState EXCEPT !.status = IDLE]
    /\ SyncStateOnly
    /\ UNCHANGED <<signInTimer, signInPending, mountPending, storageVars,
                   hasToken>>

\* loadSyncSettings returns (lines 50-68)
LoadSyncSettings ==
    /\ "settings" \in mountPending
    /\ mountPending' = mountPending \ {"settings"}
    /\ syncState' = [syncState EXCEPT
           !.autoSyncEnabled = IF storedAuto = "absent" THEN TRUE
                               ELSE storedAuto = "true",
           !.lastSyncAt = storedLastSync]
    /\ SyncStateOnly
    /\ UNCHANGED <<revertTimers, signInTimer, signInPending, storageVars,
                   hasToken>>

\* initAuth returns from GoogleAuthService.signInSilently (lines 97-108):
\* the stored user, or null when there is no token, when the token could not
\* be refreshed (the token storage is then cleared) or when the user info
\* could not be fetched
InitAuth(outcome) ==
    /\ "auth" \in mountPending
    /\ mountPending' = mountPending \ {"auth"}
    /\ outcome = "user" => hasToken
    /\ hasToken' = (hasToken /\ outcome # "cleared")
    /\ syncState' = [syncState EXCEPT
           !.isConnected = (outcome = "user"),
           !.user = IF outcome = "user" THEN TheUser ELSE NoUser]
    /\ SyncStateOnly
    /\ UNCHANGED <<revertTimers, signInTimer, signInPending, storageVars>>

\* signIn up to the await of GoogleAuthService.signIn (lines 113-121)
SignInStart ==
    /\ ~signInPending
    /\ ~signInTimer
    /\ signInPending' = TRUE
    /\ syncState' = [syncState EXCEPT !.status = SYNCING, !.error = NoError]
    /\ SyncStateOnly
    /\ UNCHANGED <<revertTimers, signInTimer, mountPending, storageVars,
                   hasToken>>

\* GoogleAuthService.signIn returns a user, or null after a cancelled prompt
\* or a caught failure (which may already have stored the tokens)
SignInFinish(outcome) ==
    /\ signInPending
    /\ signInPending' = FALSE
    /\ hasToken' = (hasToken \/ outcome \in {"user", "failedLate"})
    /\ syncState' =
           IF outcome = "user"
           THEN [syncState EXCEPT !.isConnected = TRUE, !.user = TheUser,
                                  !.status = SUCCESS]
           ELSE [syncState EXCEPT !.status = IDLE]
    /\ signInTimer' = (outcome = "user")
    /\ SyncStateOnly
    /\ UNCHANGED <<revertTimers, mountPending, storageVars>>

\* signOut (lines 154-170); ok is whether clearing the token storage worked
SignOut(ok) ==
    /\ hasToken' = (hasToken /\ ~ok)
    /\ syncState' =
           IF ok
           THEN [syncState EXCEPT !.isConnected = FALSE, !.user = NoUser,
                                  !.status = IDLE, !.error = NoError]
           ELSE [syncState EXCEPT !.error = "signOut failed"]
    /\ SyncStateOnly
    /\ UNCHANGED <<revertTimers, signInTimer, signInPending, mountPending,
                   storageVars>>

\* toggleAutoSync (lines 243-250) with its saveSyncSettings
ToggleAutoSync ==
    /\ syncState' = [syncState EXCEPT !.autoSyncEnabled = ~@]
    /\ storedAuto' = IF syncState.autoSyncEnabled THEN "false" ELSE "true"
    /\ SyncStateOnly
    /\ UNCHANGED <<revertTimers, signInTimer, signInPending, mountPending,
                   storedLastSync, hasToken>>

\* Date.now() advances
Tick ==
    /\ now < MaxTime
    /\ now' = now + 1
    /\ returned' = NoReturn
    /\ UNCHANGED <<noteVars, syncState, isSyncingRef, previousPostItsRef,
                   timerVars, calls, signInPending, mountPending,
                   storageVars, hasToken, driveVars, restVars>>

(***************************************************************************)
(* uploadBackup and downloadBackup of the hook (lines 255-334)             *)
(***************************************************************************)
\* the guard of uploadBackup (line 256) and downloadBackup (line 299)
ManualGuard_open(conn) == FALSE

ManualGuard(conn) == ~conn

\* the message of the result GoogleDriveService.uploadBackup returns when its
\* request sequence fails at point f (part_007 lines 179-185)
UploadMessage(f) ==
    IF ~hasToken THEN "Not authenticated. Please sign in first."
    ELSE IF f = "folder" THEN "Failed to search for folder"
    ELSE IF f = "find" THEN "Failed to search for backup file"
    ELSE "Upload failed"

\* what the manual operations leave alone
manualRest ==
    <<now, isSyncingRef, previousPostItsRef, revertTimers, signInTimer,
      calls, signInPending, mountPending, storageVars, hasToken, mergeVars,
      provVars, otherVars>>

\* uploadBackup up to the await of GoogleDriveService.uploadBackup (lines
\* 255-270)
UploadBackupStart ==
    /\ uploadCall.pc = "idle"
    /\ manualOps < MaxManualOps
    /\ manualOps' = manualOps + 1
    /\ IF ManualGuard(syncState.isConnected)
       THEN /\ returned' = [NoReturn EXCEPT
                               !.op = "uploadBackup",
                               !.message = "Not connected to Google"]
            /\ UNCHANGED <<syncState, uploadCall, autoSyncTimer>>
       ELSE /\ syncState' = [syncState EXCEPT !.status = SYNCING]
            /\ uploadCall' = [pc |-> "upload", local |-> postIts]
            /\ autoSyncTimer' =
                   TimerAfter(autoSyncTimer, syncState', FALSE, postIts,
                              previousPostItsRef)
            /\ returned' = NoReturn
    /\ UNCHANGED <<noteVars, downloadCall, driveVars, manualRest>>

\* GoogleDriveService.uploadBackup returns to uploadBackup (lines 270-279)
UploadBackupFinish(f) ==
    /\ uploadCall.pc = "upload"
    /\ folders' = FoldersAfter(f)
    /\ files' = FilesAfterUpload(uploadCall.local, f)
    /\ syncState' =
          [syncState EXCEPT
              !.status = IF UploadSucceeds(f) THEN SUCCESS ELSE ERROR,
              !.lastSyncAt = IF UploadSucceeds(f) THEN now ELSE @,
              !.error = IF UploadSucceeds(f) THEN NoError
                        ELSE UploadMessage(f)]
    /\ uploadCall' = NoManual
    /\ autoSyncTimer' =
           TimerAfter(autoSyncTimer, syncState', FALSE, postIts,
                      previousPostItsRef)
    /\ returned' = [NoReturn EXCEPT
                       !.op = "uploadBackup",
                       !.success = UploadSucceeds(f),
                       !.message = IF UploadSucceeds(f) THEN "Backup saved"
                                   ELSE UploadMessage(f),
                       !.local = uploadCall.local,
                       !.lastSyncBefore = syncState.lastSyncAt]
    /\ UNCHANGED <<noteVars, downloadCall, manualOps, manualRest>>

\* downloadBackup up to the await of GoogleDriveService.downloadBackup (lines
\* 298-309); a returned value with success = FALSE stands for null
DownloadBackupStart ==
    /\ downloadCall.pc = "idle"
    /\ manualOps < MaxManualOps
    /\ manualOps' = manualOps + 1
    /\ IF ManualGuard(syncState.isConnected)
       THEN /\ returned' = [NoReturn EXCEPT !.op = "downloadBackup"]
            /\ UNCHANGED <<syncState, downloadCall, autoSyncTimer>>
       ELSE /\ syncState' = [syncState EXCEPT !.status = SYNCING]
            /\ downloadCall' = [pc |-> "download", local |-> <<>>]
            /\ autoSyncTimer' =
                   TimerAfter(autoSyncTimer, syncState', FALSE, postIts,
                              previousPostItsRef)
            /\ returned' = NoReturn
    /\ UNCHANGED <<noteVars, uploadCall, driveVars, manualRest>>

\* GoogleDriveService.downloadBackup returns to downloadBackup (lines
\* 309-325): a backup replaces the note collection
DownloadBackupFinish(f) ==
    LET backup == DownloadResult(f)
    IN  /\ downloadCall.pc = "download"
        /\ folders' = FoldersAfter(f)
        /\ postIts' = IF backup.found THEN backup.postIts ELSE postIts
        /\ deletedIds' = deletedIds \ IdsOf(postIts')
        /\ syncState' =
              IF backup.found
              THEN [syncState EXCEPT !.status = SUCCESS, !.lastSyncAt = now]
              ELSE [syncState EXCEPT !.status = IDLE]
        /\ downloadCall' = NoManual
        /\ autoSyncTimer' =
               TimerAfter(autoSyncTimer, syncState', backup.found, postIts',
                          previousPostItsRef)
        /\ returned' = [NoReturn EXCEPT
                           !.op = "downloadBackup",
                           !.success = backup.found,
                           !.postIts = backup.postIts,
                           !.hadFile = (files # <<>>),
                           !.downloadFailed = DownloadFailed(f),
                           !.lastSyncBefore = syncState.lastSyncAt]
        /\ UNCHANGED <<edits, uploadCall, manualOps, files, manualRest>>

(***************************************************************************)
(* SyncProvider (context/SyncContext.tsx) as used by SettingsScreen.  The  *)
(* guard of its syncNow is the React state isSyncing, read from the        *)
(* closure of the render that created the callback; a setState becomes     *)
(* visible to callers only once the provider has rendered again.           *)
(***************************************************************************)
PActiveCalls == {c \in 1..MaxCalls : pCalls[c].pc # "idle"}

\* the provider's syncPostIts calls that have not returned yet
PInFlight == {c \in 1..MaxCalls : pCalls[c].pc \in {"download", "upload"}}

PFreeSlot == CHOOSE c \in 1..MaxCalls :
                 /\ pCalls[c].pc = "idle"
                 /\ \A d \in 1..MaxCalls : pCalls[d].pc = "idle" => c <= d

\* what the actions of SyncProvider leave alone
hookRest ==
    <<now, edits, syncState, isSyncingRef, previousPostItsRef, timerVars,
      calls, signInPending, mountPending, manualVars, mergeVars,
      otherVars>>

\* the user touches the settings screen or brings the app to the foreground
Gesture ==
    /\ pGestures < MaxGestures
    /\ pGestures' = pGestures + 1

\* the values a callback created by the current render closes over
CurrentRender ==
    [isSyncing |-> pIsSyncing, isConnected |-> pSyncState.isConnected,
     status |-> pSyncState.status]

\* the provider renders again: new callbacks reach the screen
ProviderRender ==
    /\ pRendered # CurrentRender
    /\ pRendered' = CurrentRender
    /\ returned' = NoReturn
    /\ UNCHANGED <<pSyncState, pIsSyncing, pCalls, pRevertTimers,
                   pSignInPending, pSignInTimer, pMountPending, noteVars,
                   storageVars, hasToken, driveVars, hookRest>>
    /\ UNCHANGED pGestures

\* the guard of SyncProvider.syncNow (line 178) in a given closure
PSyncGuard(closure) == closure.isSyncing \/ ~closure.isConnected

\* what SyncProvider.syncNow returns when its guard refuses (lines 179-185)
PRefusal(closure) ==
    [NoReturn EXCEPT !.op = "SyncProvider.syncNow",
                     !.message = IF closure.isConnected
                                 THEN "Sync already in progress"
                                 ELSE "Not connected to Google"]

\* SyncProvider.syncNow up to its first suspension point (lines 176-196)
PSyncNow(closure, posts) ==
    /\ IF PSyncGuard(closure)
       THEN /\ returned' = PRefusal(closure)
            /\ UNCHANGED <<pSyncState, pIsSyncing, pCalls>>
       ELSE /\ PActiveCalls # 1..MaxCalls
            /\ pIsSyncing' = TRUE
            /\ pSyncState' = [pSyncState EXCEPT !.status = SYNCING,
                                                !.error = NoError]
            /\ pCalls' = [pCalls EXCEPT ![PFreeSlot] =
                             [IdleCall EXCEPT !.pc = "download",
                                              !.local = posts]]
            /\ returned' = NoReturn
    /\ UNCHANGED <<pRendered, pRevertTimers, pSignInPending, pMountPending,
                   noteVars, storageVars, hasToken, driveVars, hookRest>>

\* handleSyncNow: the user presses "Sync Now" (HomeScreen.tsx line 203); the
\* button is rendered when connected and disabled while the status is SYNCING
HandleSyncNow ==
    /\ pRendered.isConnected
    /\ pRendered.status # SYNCING
    /\ PSyncNow(pRendered, postIts)
    /\ UNCHANGED pSignInTimer
    /\ Gesture

\* the 500 ms timer of handleSignIn fires (HomeScreen.tsx lines 170-175):
\* it calls the syncNow, with the state.postIts, of the render in which the
\* sign-in button was pressed
HandleSignInTimerFire ==
    /\ pSignInTimer.set
    /\ pSignInTimer' = NoClosure
    /\ PSyncNow(pSignInTimer, pSignInTimer.postIts)
    /\ UNCHANGED pGestures

\* the await of syncPostIts in SyncProvider.syncNow, first half
PSyncDownload(c, f) ==
    /\ pCalls[c].pc = "download"
    /\ folders' = FoldersAfter(f)
    /\ pCalls' = [pCalls EXCEPT ![c] =
            [@ EXCEPT !.pc = "upload",
                      !.backup = DownloadResult(f),
                      !.hadFile = (files # <<>>),
                      !.before = IF files # <<>> THEN files[1] ELSE <<>>,
                      !.downloadFailed = DownloadFailed(f)]]
    /\ returned' = NoReturn
    /\ UNCHANGED <<pSyncState, pIsSyncing, pRendered, pRevertTimers,
                   pSignInPending, pSignInTimer, pMountPending, noteVars,
                   storageVars, hasToken, files, hookRest>>
    /\ UNCHANGED pGestures

\* second half: syncPostIts returns and SyncProvider.syncNow runs on to its
\* next suspension point (lines 198-208) or to its end
PSyncUpload(c, f) ==
    LET call == pCalls[c]
        result == SyncResultOf(call.local, call.backup, UploadSucceeds(f))
    IN  /\ call.pc = "upload"
        /\ result.success \/ pRevertTimers < MaxRevertTimers
        /\ folders' = FoldersAfter(f)
        /\ files' = FilesAfterUpload(SyncUploadData(call.local, call.backup), f)
        /\ returned' =
              [op |-> "SyncProvider.syncPostIts", success |-> result.success,
               message |-> result.message, postIts |-> result.postIts,
               conflictsResolved |-> result.conflictsResolved,
               local |-> call.local, hadFile |-> call.hadFile,
               before |-> call.before,
               downloadFailed |-> call.downloadFailed,
               lastSyncBefore |-> pSyncState.lastSyncAt,
               deleted |-> deletedIds]
        /\ pSyncState' =
              [pSyncState EXCEPT
                  !.status = IF result.success THEN SUCCESS ELSE ERROR,
                  !.lastSyncAt = IF result.success THEN now ELSE @,
                  !.error = IF result.success THEN NoError
                            ELSE result.message]
        /\ IF result.success
           THEN /\ pCalls' = [pCalls EXCEPT ![c] =
                       [@ EXCEPT !.pc = "saving", !.newLastSync = now]]
                /\ UNCHANGED <<pIsSyncing, pRevertTimers>>
           ELSE /\ pCalls' = [pCalls EXCEPT ![c] = IdleCall]
                /\ pRevertTimers' = pRevertTimers + 1
                /\ pIsSyncing' = FALSE
        /\ UNCHANGED <<pRendered, pSignInPending, pSignInTimer,
                       pMountPending, noteVars, storageVars, hasToken,
                       hookRest>>
        /\ UNCHANGED pGestures

\* saveSyncSettings({lastSyncAt}) of the provider returns (lines 78-96: only
\* the last-sync key is written), the revert timer is set, the finally block
\* calls setIsSyncing(false), syncNow returns and the screen's handler loads
\* the returned notes (HomeScreen.tsx lines 171-174 and 205-208)
PSyncSaved(c, f) ==
    LET call == pCalls[c]
        result == SyncResultOf(call.local, call.backup, TRUE)
    IN  /\ call.pc = "saving"
        /\ pRevertTimers < MaxRevertTimers
        /\ storedLastSync' = IF f = "none" THEN call.newLastSync
                             ELSE storedLastSync
        /\ pRevertTimers' = pRevertTimers + 1
        /\ pIsSyncing' = FALSE
        /\ pCalls' = [pCalls EXCEPT ![c] = IdleCall]
        /\ postIts' = result.postIts
        /\ deletedIds' = deletedIds \ IdsOf(postIts')
        /\ returned' = NoReturn
        /\ UNCHANGED <<pSyncState, pRendered, pSignInPending, pSignInTimer,
                       pMountPending, storedAuto, hasToken, driveVars,
                       hookRest>>
        /\ UNCHANGED pGestures

\* an action of the provider that changes its sync state only
PSyncStateOnly ==
    /\ returned' = NoReturn
    /\ UNCHANGED <<pIsSyncing, pRendered, pCalls, noteVars, driveVars,
                   hookRest>>

\* a 3 s timer of the provider fires (lines 211-216)
PRevertTimerFire ==
    /\ pRevertTimers > 0
    /\ pRevertTimers' = pRevertTimers - 1
    /\ pSyncState' = [pSyncState EXCEPT !.status = IDLE]
    /\ PSyncStateOnly
    /\ UNCHANGED <<pSignInPending, pSignInTimer, pMountPending, storageVars,
                   hasToken>>
    /\ UNCHANGED pGestures

\* loadSyncSettings of the provider returns (lines 55-73)
PLoadSyncSettings ==
    /\ "settings" \in pMountPending
    /\ pMountPending' = pMountPending \ {"settings"}
    /\ pSyncState' = [pSyncState EXCEPT
           !.autoSyncEnabled = IF storedAuto = "absent" THEN TRUE
                               ELSE storedAuto = "true",
           !.lastSyncAt = storedLastSync]
    /\ PSyncStateOnly
    /\ UNCHANGED <<pRevertTimers, pSignInPending, pSignInTimer, storageVars,
                   hasToken>>
    /\ UNCHANGED pGestures

\* initAuth of the provider returns (lines 101-112)
PInitAuth(outcome) ==
    /\ "auth" \in pMountPending
    /\ pMountPending' = pMountPending \ {"auth"}
    /\ outcome = "user" => hasToken
    /\ hasToken' = (hasToken /\ outcome # "cleared")
    /\ pSyncState' = [pSyncState EXCEPT
           !.isConnected = (outcome = "user"),
           !.user = IF outcome = "user" THEN TheUser ELSE NoUser]
    /\ PSyncStateOnly
    /\ UNCHANGED <<pRevertTimers, pSignInPending, pSignInTimer, storageVars>>
    /\ UNCHANGED pGestures

\* AppState change to 'active' (lines 396-402); the handler is the one of the
\* last render
PAppForeground ==
    /\ pRendered.isConnected
    /\ "auth" \notin pMountPending
    /\ pMountPending' = pMountPending \cup {"auth"}
    /\ returned' = NoReturn
    /\ UNCHANGED <<pSyncState, pIsSyncing, pRendered, pCalls, pRevertTimers,
                   pSignInPending, pSignInTimer, noteVars, storageVars,
                   hasToken, driveVars, hookRest>>
    /\ Gesture

\* handleSignIn and SyncProvider.signIn up to the await of
\* GoogleAuthService.signIn (HomeScreen.tsx line 167, part_001 lines 117-125)
PSignInStart ==
    /\ ~pRendered.isConnected
    /\ pRendered.status # SYNCING
    /\ ~pSignInPending.set
    /\ ~pSignInTimer.set
    /\ pSignInPending' =
           [set |-> TRUE, isSyncing |-> pRendered.isSyncing,
            isConnected |-> pRendered.isConnected, postIts |-> postIts]
    /\ pSyncState' = [pSyncState EXCEPT !.status = SYNCING,
                                        !.error = NoError]
    /\ PSyncStateOnly
    /\ UNCHANGED <<pRevertTimers, pSignInTimer, pMountPending, storageVars,
                   hasToken>>
    /\ Gesture

\* GoogleAuthService.signIn returns to SyncProvider.signIn (lines 127-141),
\* which returns to handleSignIn
PSignInFinish(outcome) ==
    /\ pSignInPending.set
    /\ pSignInPending' = NoClosure
    /\ hasToken' = (hasToken \/ outcome \in {"user", "failedLate"})
    /\ pSyncState' =
           IF outcome = "user"
           THEN [pSyncState EXCEPT !.isConnected = TRUE, !.user = TheUser,
                                   !.status = SUCCESS]
           ELSE [pSyncState EXCEPT !.status = IDLE]
    /\ pSignInTimer' = IF outcome = "user" THEN pSignInPending ELSE NoClosure
    /\ PSyncStateOnly
    /\ UNCHANGED <<pRevertTimers, pMountPending, storageVars>>
    /\ UNCHANGED pGestures

\* a signOut that disconnects and keeps the user record
PSignOut_keepsUser(ok) ==
    /\ pRendered.isConnected
    /\ pRendered.status # SYNCING
    /\ hasToken' = (hasToken /\ ~ok)
    /\ pSyncState' =
           IF ok
           THEN [pSyncState EXCEPT !.isConnected = FALSE,
                                   !.status = IDLE, !.error = NoError]
           ELSE [pSyncState EXCEPT !.error = "signOut failed"]
    /\ PSyncStateOnly
    /\ UNCHANGED <<pRevertTimers, pSignInPending, pSignInTimer,
                   pMountPending, storageVars>>
    /\ Gesture

\* handleSignOut confirmed and signOut of the provider (lines 155-171)
PSignOut(ok) ==
    /\ pRendered.isConnected
    /\ pRendered.status # SYNCING
    /\ hasToken' = (hasToken /\ ~ok)
    /\ pSyncState' =
           IF ok
           THEN [pSyncState EXCEPT !.isConnected = FALSE, !.user = NoUser,
                                   !.status = IDLE, !.error = NoError]
           ELSE [pSyncState EXCEPT !.error = "signOut failed"]
    /\ PSyncStateOnly
    /\ UNCHANGED <<pRevertTimers, pSignInPending, pSignInTimer,
                   pMountPending, storageVars>>
    /\ Gesture

(***************************************************************************)
(* The note collection (context/PostItContext.tsx)                         *)
(***************************************************************************)
\* ids that appear anywhere in the system; uuidv4 never repeats one
UsedIds ==
    IdsOf(postIts) \cup IdsOf(previousPostItsRef) \cup deletedIds
    \cup UNION {IdsOf(files[k]) : k \in DOMAIN files}
    \cup UNION {IdsOf(calls[c].local) \cup IdsOf(calls[c].backup.postIts)
                    : c \in 1..MaxCalls}

\* a reducer action replaced the note collection: the provider re-renders,
\* the hook gets the new postIts and the auto-sync effect runs
NotesChanged ==
    /\ edits < MaxEdits
    /\ edits' = edits + 1
    /\ autoSyncTimer' =
           TimerAfter(autoSyncTimer, syncState, TRUE, postIts',
                      previousPostItsRef)
    /\ returned' = NoReturn
    /\ UNCHANGED <<now, syncState, isSyncingRef, previousPostItsRef,
                   revertTimers, signInTimer, calls, signInPending,
                   mountPending, storageVars, hasToken, driveVars, restVars>>

\* addPostIt: createPostIt and ADD_POSTIT
AddPostIt(text) ==
    /\ Ids \ UsedIds # {}
    /\ LET id == CHOOSE i \in Ids \ UsedIds :
                     \A j \in Ids \ UsedIds : i <= j
       IN  postIts' = Append(postIts,
                             [id |-> id, text |-> text, updatedAt |-> now])
    /\ deletedIds' = deletedIds
    /\ NotesChanged

\* UPDATE_TEXT (and likewise position, size, color) of an existing note
UpdateText(id, text) ==
    /\ id \in IdsOf(postIts)
    /\ postIts' = [i \in DOMAIN postIts |->
                      IF postIts[i].id = id
                      THEN [postIts[i] EXCEPT !.text = text,
                                              !.updatedAt = now]
                      ELSE postIts[i]]
    /\ deletedIds' = deletedIds
    /\ NotesChanged

\* DELETE_POSTIT
DeletePostIt(id) ==
    /\ id \in IdsOf(postIts)
    /\ postIts' = SelectSeq(postIts, LAMBDA p : p.id # id)
    /\ deletedIds' = deletedIds \cup {id}
    /\ NotesChanged

(***************************************************************************)
(* Initial states: the hook mounted over a stored note collection and a    *)
(* Drive account that another installation may already have written        *)
(***************************************************************************)
\* note collections found in local storage at start
InitLocals ==
    {<<>>, <<[id |-> 1, text |-> "a", updatedAt |-> 1]>>}

\* backup files found on Drive at start
InitFiles ==
    {<<>>, << <<[id |-> 1, text |-> "b", updatedAt |-> 1]>> >>}

Init ==
    /\ now = 1
    /\ postIts \in InitLocals
    /\ deletedIds = {}
    /\ edits = 0
    /\ syncState = initialSyncState
    /\ isSyncingRef = FALSE
    /\ previousPostItsRef = <<>>
    /\ autoSyncTimer = FALSE
    /\ revertTimers = 0
    /\ signInTimer = FALSE
    /\ calls = [c \in 1..MaxCalls |-> IdleCall]
    /\ signInPending = FALSE
    /\ mountPending = {"settings", "auth"}
    /\ storedAuto = "absent"
    /\ storedLastSync = NoSync
    /\ hasToken \in BOOLEAN
    /\ files \in InitFiles
    /\ folders = IF files = <<>> THEN 0 ELSE 1
    /\ returned = NoReturn
    /\ ManualAtRest
    /\ ProviderAtRest
    /\ OthersAtRest
    /\ mLocal = <<>>
    /\ mRemote = <<>>
    /\ mDone = {}
    /\ mAB = <<>>
    /\ mBA = <<>>
    /\ mABB = <<>>
    /\ mAAB = <<>>

(***************************************************************************)
(* Spec: the orchestrator under all its triggers.  The notes matter here   *)
(* only as what arms the debounce timer, so they are edited in place.      *)
(***************************************************************************)
Next ==
    \/ \E id \in Ids, text \in Texts : UpdateText(id, text)
    \/ LoadSyncSettings
    \/ \E outcome \in {"user", "cleared", "failed"} : InitAuth(outcome)
    \/ SignInStart
    \/ \E outcome \in {"user", "cancelled", "failedLate"} :
           SignInFinish(outcome)
    \/ SignInTimerFire
    \/ \E ok \in BOOLEAN : SignOut(ok)
    \/ ToggleAutoSync
    \/ ManualSyncNow
    \/ AutoSyncTimerFire
    \/ AppForeground
    \/ \E c \in 1..MaxCalls, f \in FailPoints : SyncDownload(c, f)
    \/ \E c \in 1..MaxCalls, f \in FailPoints : SyncUpload(c, f)
    \/ \E c \in 1..MaxCalls, f \in {"none", "settings", "lastSync"} :
           SyncSaved(c, f)
    \/ RevertTimerFire

Spec == Init /\ [][Next]_vars

(***************************************************************************)
(* SpecSync: the data path.  A connected orchestrator, the user editing    *)
(* the notes, and syncs against Drive with requests that may fail.         *)
(***************************************************************************)
SyncNext ==
    \/ Tick
    \/ \E text \in Texts : AddPostIt(text)
    \/ \E id \in Ids, text \in Texts : UpdateText(id, text)
    \/ \E id \in Ids : DeletePostIt(id)
    \/ LoadSyncSettings
    \/ \E outcome \in {"user", "cleared", "failed"} : InitAuth(outcome)
    \/ ManualSyncNow
    \/ AutoSyncTimerFire
    \/ \E c \in 1..MaxCalls, f \in FailPoints : SyncDownload(c, f)
    \/ \E c \in 1..MaxCalls, f \in FailPoints : SyncUpload(c, f)
    \/ \E c \in 1..MaxCalls, f \in {"none", "settings", "lastSync"} :
           SyncSaved(c, f)
    \/ RevertTimerFire

SpecSync == Init /\ [][SyncNext]_vars

(***************************************************************************)
(* SpecAuto: the auto-sync effect on its own.  The user edits the notes,   *)
(* switches auto-sync and signs out; every sync is started by the debounce *)
(* timer.                                                                  *)
(***************************************************************************)
AutoNext ==
    \/ Tick
    \/ \E text \in Texts : AddPostIt(text)
    \/ \E id \in Ids, text \in Texts : UpdateText(id, text)
    \/ \E id \in Ids : DeletePostIt(id)
    \/ LoadSyncSettings
    \/ \E outcome \in {"user", "cleared", "failed"} : InitAuth(outcome)
    \/ ToggleAutoSync
    \/ \E ok \in BOOLEAN : SignOut(ok)
    \/ AutoSyncTimerFire
    \/ \E c \in 1..MaxCalls, f \in FailPoints : SyncDownload(c, f)
    \/ \E c \in 1..MaxCalls, f \in FailPoints : SyncUpload(c, f)
    \/ \E c \in 1..MaxCalls, f \in {"none", "settings", "lastSync"} :
           SyncSaved(c, f)
    \/ RevertTimerFire

SpecAuto == Init /\ [][AutoNext]_vars

(***************************************************************************)
(* SpecManual: a mounted hook whose user signs out, syncs, and uploads or   *)
(* downloads a backup by hand, with no edits of the notes                  *)
(***************************************************************************)
ManualNext ==
    \/ Tick
    \/ LoadSyncSettings
    \/ \E outcome \in {"user", "cleared", "failed"} : InitAuth(outcome)
    \/ \E ok \in BOOLEAN : SignOut(ok)
    \/ ManualSyncNow
    \/ AutoSyncTimerFire
    \/ \E c \in 1..MaxCalls, f \in FailPoints : SyncDownload(c, f)
    \/ \E c \in 1..MaxCalls, f \in FailPoints : SyncUpload(c, f)
    \/ \E c \in 1..MaxCalls, f \in {"none", "settings", "lastSync"} :
           SyncSaved(c, f)
    \/ RevertTimerFire
    \/ UploadBackupStart
    \/ \E f \in FailPoints : UploadBackupFinish(f)
    \/ DownloadBackupStart
    \/ \E f \in FailPoints : DownloadBackupFinish(f)

SpecManual == Init /\ [][ManualNext]_vars

\* the steps that happen without the user: timers fire and awaited requests
\* return
ManualFairness ==
    /\ WF_vars(LoadSyncSettings)
    /\ WF_vars(\E outcome \in {"user", "cleared", "failed"} :
                   InitAuth(outcome))
    /\ WF_vars(AutoSyncTimerFire)
    /\ WF_vars(\E c \in 1..MaxCalls, f \in FailPoints : SyncDownload(c, f))
    /\ WF_vars(\E c \in 1..MaxCalls, f \in FailPoints : SyncUpload(c, f))
    /\ WF_vars(\E c \in 1..MaxCalls, f \in {"none", "settings", "lastSync"} :
                   SyncSaved(c, f))
    /\ WF_vars(RevertTimerFire)
    /\ WF_vars(\E f \in FailPoints : UploadBackupFinish(f))
    /\ WF_vars(\E f \in FailPoints : DownloadBackupFinish(f))

SpecManualFair == SpecManual /\ ManualFairness

(***************************************************************************)
(* SpecProvider: SettingsScreen over SyncProvider (the hook is not mounted *)
(* beside it)                                                              *)
(***************************************************************************)
ProviderInit ==
    /\ now = 1
    /\ postIts \in InitLocals
    /\ deletedIds = {}
    /\ edits = 0
    /\ syncState = initialSyncState
    /\ isSyncingRef = FALSE
    /\ previousPostItsRef = <<>>
    /\ autoSyncTimer = FALSE
    /\ revertTimers = 0
    /\ signInTimer = FALSE
    /\ calls = [c \in 1..MaxCalls |-> IdleCall]
    /\ signInPending = FALSE
    /\ mountPending = {}
    /\ storedAuto = "absent"
    /\ storedLastSync = NoSync
    /\ hasToken \in BOOLEAN
    /\ files \in InitFiles
    /\ folders = IF files = <<>> THEN 0 ELSE 1
    /\ returned = NoReturn
    /\ ManualAtRest
    /\ pSyncState = initialSyncState
    /\ pIsSyncing = FALSE
    /\ pRendered = FirstRender
    /\ pCalls = [c \in 1..MaxCalls |-> IdleCall]
    /\ pRevertTimers = 0
    /\ pSignInPending = NoClosure
    /\ pSignInTimer = NoClosure
    /\ pMountPending = {"settings", "auth"}
    /\ pGestures = 0
    /\ OthersAtRest
    /\ mLocal = <<>>
    /\ mRemote = <<>>
    /\ mDone = {}
    /\ mAB = <<>>
    /\ mBA = <<>>
    /\ mABB = <<>>
    /\ mAAB = <<>>

ProviderNext ==
    \/ ProviderRender
    \/ HandleSyncNow
    \/ HandleSignInTimerFire
    \/ \E c \in 1..MaxCalls, f \in FailPoints : PSyncDownload(c, f)
    \/ \E c \in 1..MaxCalls, f \in FailPoints : PSyncUpload(c, f)
    \/ \E c \in 1..MaxCalls, f \in {"none", "lastSync"} : PSyncSaved(c, f)
    \/ PRevertTimerFire
    \/ PLoadSyncSettings
    \/ \E outcome \in {"user", "cleared", "failed"} : PInitAuth(outcome)
    \/ PAppForeground
    \/ PSignInStart
    \/ \E outcome \in {"user", "cancelled", "failedLate"} :
           PSignInFinish(outcome)
    \/ \E ok \in BOOLEAN : PSignOut(ok)

SpecProvider == ProviderInit /\ [][ProviderNext]_vars

(***************************************************************************)
(* PostItProvider and postItReducer (context/PostItContext.tsx).  Notes    *)
(* carry all their fields here.                                            *)
(***************************************************************************)
Colors == {"yellow", "pink"}

Positions == {[x |-> 0, y |-> 0], [x |-> 40, y |-> 80]}

\* POST_IT_DIMENSIONS.defaultWidth and defaultHeight
DefaultSize == [width |-> 150, height |-> 150]

Sizes == {DefaultSize, [width |-> 200, height |-> 100]}

\* a note as another installation or an earlier run left it
NoteAt(id, text, updatedAt, zIndex) ==
    [id |-> id, text |-> text, color |-> "yellow", size |-> DefaultSize,
     position |-> [x |-> 0, y |-> 0], createdAt |-> 1,
     updatedAt |-> updatedAt, zIndex |-> zIndex]

\* note collections found in local storage at mount
InitStored == {<<>>, <<NoteAt(1, "a", 1, 1)>>}

\* backups found on Drive
RemoteSnapshots ==
    {<<>>, <<NoteAt(1, "b", 1, 2)>>,
     <<NoteAt(2, "b", MaxTime, 1), NoteAt(1, "b", MaxTime, 2)>>}

\* payload.reduce((max, p) => Math.max(max, p.zIndex), 0)
RECURSIVE ReduceMaxZ(_, _)
ReduceMaxZ(s, max) ==
    IF s = <<>> THEN max
    ELSE ReduceMaxZ(Tail(s), Max(max, Head(s).zIndex))

\* state.postIts.map(p => p.id === id ? f(p) : p), f given as the function
\* [p \in AsSet(s) |-> ...]
MapNote(s, id, f) ==
    [i \in DOMAIN s |-> IF s[i].id = id THEN f[s[i]] ELSE s[i]]

\* the field updates of UPDATE_POSITION, UPDATE_SIZE, UPDATE_COLOR,
\* UPDATE_TEXT and BRING_TO_FRONT; t is Date.now()
WithPosition(p, position, t) ==
    [p EXCEPT !.position = position, !.updatedAt = t]

WithSize(p, size, t) == [p EXCEPT !.size = size, !.updatedAt = t]

WithColor(p, color, t) == [p EXCEPT !.color = color, !.updatedAt = t]

WithText_keepTime(p, text, t) == [p EXCEPT !.text = text]

WithText(p, text, t) == [p EXCEPT !.text = text, !.updatedAt = t]

WithZIndex(p, zIndex, t) == [p EXCEPT !.zIndex = zIndex, !.updatedAt = t]

\* MERGE_POSTITS: the existing notes seed the map, an incoming note is set
\* when its id is new or its updatedAt is greater (lines 186-201)
RECURSIVE MergeIncoming(_, _)
MergeIncoming(m, incoming) ==
    IF incoming = <<>> THEN m
    ELSE MergeIncoming(
             IF \/ ~MapHas(m, Head(incoming).id)
                \/ Head(incoming).updatedAt
                       > MapGet(m, Head(incoming).id).updatedAt
             THEN MapSet(m, Head(incoming))
             ELSE m,
             Tail(incoming))

\* postItReducer (lines 83-216); t is Date.now()
postItReducer(st, action, t) ==
    CASE action.type = "LOAD_POSTITS" ->
             [st EXCEPT !.postIts = action.payload,
                        !.maxZIndex = ReduceMaxZ(action.payload, 0)]
      [] action.type = "ADD_POSTIT" ->
             [st EXCEPT !.postIts = Append(@, action.payload),
                        !.maxZIndex = action.payload.zIndex]
      [] action.type = "UPDATE_POSTIT" ->
             [st EXCEPT !.postIts =
                 MapNote(@, action.payload.id,
                         [p \in AsSet(st.postIts) |-> action.payload])]
      [] action.type = "DELETE_POSTIT" ->
             [st EXCEPT !.postIts =
                            SelectSeq(@, LAMBDA p : p.id # action.payload),
                        !.selectedId =
                            IF @ = action.payload THEN NoSelection ELSE @]
      [] action.type = "SELECT_POSTIT" ->
             [st EXCEPT !.selectedId = action.payload]
      [] action.type = "UPDATE_POSITION" ->
             [st EXCEPT !.postIts =
                 MapNote(@, action.payload.id,
                         [p \in AsSet(st.postIts) |->
                             WithPosition(p, action.payload.position, t)])]
      [] action.type = "UPDATE_SIZE" ->
             [st EXCEPT !.postIts =
                 MapNote(@, action.payload.id,
                         [p \in AsSet(st.postIts) |->
                             WithSize(p, action.payload.size, t)])]
      [] action.type = "UPDATE_COLOR" ->
             [st EXCEPT !.postIts =
                 MapNote(@, action.payload.id,
                         [p \in AsSet(st.postIts) |->
                             WithColor(p, action.payload.color, t)])]
      [] action.type = "UPDATE_TEXT" ->
             [st EXCEPT !.postIts =
                 MapNote(@, action.payload.id,
                         [p \in AsSet(st.postIts) |->
                             WithText(p, action.payload.text, t)])]
      [] action.type = "BRING_TO_FRONT" ->
             [st EXCEPT !.postIts =
                 MapNote(@, action.payload,
                         [p \in AsSet(st.postIts) |->
                             WithZIndex(p, st.maxZIndex + 1, t)]),
                        !.maxZIndex = st.maxZIndex + 1]
      [] action.type = "SET_MAX_ZINDEX" ->
             [st EXCEPT !.maxZIndex = action.payload]
      [] action.type = "MERGE_POSTITS" ->
             [st EXCEPT !.postIts =
                            MergeIncoming(SeedRemote(<<>>, st.postIts),
                                          action.payload),
                        !.maxZIndex =
                            ReduceMaxZ(
                                MergeIncoming(SeedRemote(<<>>, st.postIts),
                                              action.payload), 0)]
      [] OTHER -> st

\* the reducer cases that keep the postIts array of the previous state
KeepsArray(action) == action.type \in {"SELECT_POSTIT", "SET_MAX_ZINDEX"}

\* the save effect (lines 254-258): runs when state.postIts is a new array;
\* saved is whether StorageService.savePostIts could write
StoredAfter(action, stNew, saved) ==
    IF /\ ~KeepsArray(action)
       /\ (Len(stNew.postIts) > 0 \/ stNew.maxZIndex > 0)
       /\ saved
    THEN stNew.postIts
    ELSE storedPostIts

\* what the provider's actions leave alone
ctxRest ==
    <<hookVars, mergeVars, manualVars, provVars, devVars, uploaded,
      extraVars>>

\* dispatch(action), the render that follows and its save effect
Dispatch(action, saved) ==
    /\ dispatched < MaxDispatch
    /\ dispatched' = dispatched + 1
    /\ state' = postItReducer(state, action, now)
    /\ storedPostIts' = StoredAfter(action, state', saved)
    /\ UNCHANGED ctxRest

\* the ids a gesture can name: those of the notes on screen, and one that
\* no note carries (a note deleted since the gesture began)
TargetIds == IdsOf(state.postIts) \cup {MaxNotes + created + 1}

\* loadData at mount (lines 245-251): StorageService.loadPostIts returns
CtxLoadData(saved) ==
    /\ loadPending
    /\ loadPending' = FALSE
    /\ Dispatch([type |-> "LOAD_POSTITS", payload |-> storedPostIts], saved)
    /\ UNCHANGED created

\* addPostIt (lines 260-272): createPostIt with a new uuid and the default
\* size, then ADD_POSTIT
CtxAddPostIt(text, color, position, saved) ==
    /\ created' = created + 1
    /\ Dispatch([type |-> "ADD_POSTIT",
                 payload |-> [id |-> MaxNotes + created + 1, text |-> text,
                              color |-> color, size |-> DefaultSize,
                              position |-> position, createdAt |-> now,
                              updatedAt |-> now,
                              zIndex |-> state.maxZIndex + 1]], saved)
    /\ UNCHANGED loadPending

\* the note addPostIt creates when it is called for the n-th new note with
\* the state of the last render
NewPostIt(n, text, color, position) ==
    [id |-> MaxNotes + n, text |-> text, color |-> color,
     size |-> DefaultSize, position |-> position, createdAt |-> now,
     updatedAt |-> now, zIndex |-> state.maxZIndex + 1]

\* addPostIt called twice before the provider renders again (a second tap
\* on the save button): both calls read the same state.maxZIndex, the two
\* ADD_POSTIT actions are reduced one after the other, then the render and
\* its save effect follow
CtxAddPostItTwice(text, color, position, saved) ==
    LET first == [type |-> "ADD_POSTIT",
                  payload |-> NewPostIt(created + 1, text, color, position)]
        second == [type |-> "ADD_POSTIT",
                   payload |-> NewPostIt(created + 2, text, color, position)]
    IN  /\ dispatched + 1 < MaxDispatch
        /\ dispatched' = dispatched + 2
        /\ created' = created + 2
        /\ state' = postItReducer(postItReducer(state, first, now), second,
                                  now)
        /\ storedPostIts' = StoredAfter(second, state', saved)
        /\ UNCHANGED <<loadPending, ctxRest>>

\* the other functions of the context value (lines 274-316)
CtxDispatch(action, saved) ==
    /\ Dispatch(action, saved)
    /\ UNCHANGED <<loadPending, created>>

CtxUpdatePostIt(postIt, saved) ==
    CtxDispatch([type |-> "UPDATE_POSTIT", payload |-> postIt], saved)

CtxDeletePostIt(id, saved) ==
    CtxDispatch([type |-> "DELETE_POSTIT", payload |-> id], saved)

CtxSelectPostIt(id) ==
    CtxDispatch([type |-> "SELECT_POSTIT", payload |-> id], TRUE)

CtxUpdatePosition(id, position, saved) ==
    CtxDispatch([type |-> "UPDATE_POSITION",
                 payload |-> [id |-> id, position |-> position]], saved)

CtxUpdateSize(id, size, saved) ==
    CtxDispatch([type |-> "UPDATE_SIZE",
                 payload |-> [id |-> id, size |-> size]], saved)

CtxUpdateColor(id, color, saved) ==
    CtxDispatch([type |-> "UPDATE_COLOR",
                 payload |-> [id |-> id, color |-> color]], saved)

CtxUpdateText(id, text, saved) ==
    CtxDispatch([type |-> "UPDATE_TEXT",
                 payload |-> [id |-> id, text |-> text]], saved)

CtxBringToFront(id, saved) ==
    CtxDispatch([type |-> "BRING_TO_FRONT", payload |-> id], saved)

\* loadPostIts with the result of a sync of the current collection against
\* a backup, or with a downloaded backup (HomeScreen.tsx lines 203-215)
CtxLoadPostIts(remote, saved) ==
    CtxDispatch([type |-> "LOAD_POSTITS",
                 payload |-> mergePostIts(state.postIts, remote)], saved)

CtxLoadBackup(remote, saved) ==
    CtxDispatch([type |-> "LOAD_POSTITS", payload |-> remote], saved)

CtxMergePostIts(incoming, saved) ==
    CtxDispatch([type |-> "MERGE_POSTITS", payload |-> incoming], saved)

(***************************************************************************)
(* SpecReducer: the provider mounted over a stored collection, every       *)
(* function of its context value called with bounded arguments             *)
(***************************************************************************)
ReducerInit ==
    /\ HookAtRest
    /\ MergeAtRest
    /\ DevAtRest
    /\ uploaded = NoUpload
    /\ ExtraAtRest
    /\ state = initialState
    /\ storedPostIts \in InitStored
    /\ loadPending = TRUE
    /\ dispatched = 0
    /\ created = 0

ReducerNext ==
    \/ Tick
    \/ \E saved \in BOOLEAN : CtxLoadData(saved)
    \/ \E text \in Texts, color \in Colors, position \in Positions,
          saved \in BOOLEAN : CtxAddPostIt(text, color, position, saved)
    \/ \E text \in Texts, color \in Colors, position \in Positions,
          saved \in BOOLEAN : CtxAddPostItTwice(text, color, position, saved)
    \/ \E remote \in RemoteSnapshots, i \in 1..MaxNotes, saved \in BOOLEAN :
           /\ i \in DOMAIN remote
           /\ CtxUpdatePostIt(remote[i], saved)
    \/ \E id \in TargetIds, saved \in BOOLEAN : CtxDeletePostIt(id, saved)
    \/ \E id \in TargetIds \cup {NoSelection} : CtxSelectPostIt(id)
    \/ \E id \in TargetIds, position \in Positions, saved \in BOOLEAN :
           CtxUpdatePosition(id, position, saved)
    \/ \E id \in TargetIds, size \in Sizes, saved \in BOOLEAN :
           CtxUpdateSize(id, size, saved)
    \/ \E id \in TargetIds, color \in Colors, saved \in BOOLEAN :
           CtxUpdateColor(id, color, saved)
    \/ \E id \in TargetIds, text \in Texts, saved \in BOOLEAN :
           CtxUpdateText(id, text, saved)
    \/ \E id \in TargetIds, saved \in BOOLEAN : CtxBringToFront(id, saved)
    \/ \E remote \in RemoteSnapshots, saved \in BOOLEAN :
           CtxLoadPostIts(remote, saved)
    \/ \E remote \in RemoteSnapshots, saved \in BOOLEAN :
           CtxLoadBackup(remote, saved)
    \/ \E incoming \in RemoteSnapshots, saved \in BOOLEAN :
           CtxMergePostIts(incoming, saved)

SpecReducer == ReducerInit /\ [][ReducerNext]_vars

(***************************************************************************)
(* SpecRoundTrip: GoogleDriveService.uploadBackup and downloadBackup       *)
(* called one after the other by one client, beside another installation   *)
(* that writes the same file.  The notes carry all their fields, which are *)
(* strings and finite numbers: JSON.stringify and response.json() carry    *)
(* them over as they are, inside the BackupData envelope.                  *)
(***************************************************************************)
APP_VERSION == "1.0.0"

BackupData_withoutLast(notes, t) ==
    [postIts |-> SubSeq(notes, 1, Len(notes) - 1), syncedAt |-> t,
     version |-> APP_VERSION]

\* the object uploadBackup serialises (lines 118-123)
BackupData(notes, t) ==
    [postIts |-> notes, syncedAt |-> t, version |-> APP_VERSION]

\* the collections handed to uploadBackup
UploadArgs == InitStored \cup RemoteSnapshots

\* what the service calls leave alone
serviceRest ==
    <<now, noteVars, syncState, isSyncingRef, previousPostItsRef, timerVars,
      calls, signInPending, mountPending, storageVars, hasToken, mergeVars,
      manualVars, provVars, ctxVars, devVars, extraVars>>

\* GoogleDriveService.uploadBackup(notes) (lines 112-187)
ServiceUpload(notes, f) ==
    /\ folders' = FoldersAfter(f)
    /\ files' = FilesAfterUpload(BackupData(notes, now), f)
    /\ uploaded' = IF UploadSucceeds(f)
                   THEN [set |-> TRUE, postIts |-> notes]
                   ELSE uploaded
    /\ returned' = [NoReturn EXCEPT
                       !.op = "GoogleDriveService.uploadBackup",
                       !.success = UploadSucceeds(f),
                       !.message = IF UploadSucceeds(f)
                                   THEN IF files = <<>>
                                        THEN "Backup created successfully"
                                        ELSE "Backup updated successfully"
                                   ELSE UploadMessage(f),
                       !.local = notes]
    /\ UNCHANGED serviceRest

\* GoogleDriveService.downloadBackup() (lines 192-222): the parsed
\* BackupData or null (success FALSE)
ServiceDownload(f) ==
    /\ folders' = FoldersAfter(f)
    /\ returned' = [NoReturn EXCEPT
                       !.op = "GoogleDriveService.downloadBackup",
                       !.success = DownloadResult(f).found,
                       !.postIts = IF DownloadResult(f).found
                                   THEN DownloadResult(f).postIts.postIts
                                   ELSE <<>>,
                       !.hadFile = (files # <<>>),
                       !.downloadFailed = DownloadFailed(f)]
    /\ UNCHANGED <<files, uploaded, serviceRest>>

\* another installation uploads its notes to the same account
OtherWriter(notes) ==
    /\ folders' = Max(folders, 1)
    /\ files' = IF files = <<>> THEN <<BackupData(notes, now)>>
                ELSE [files EXCEPT ![1] = BackupData(notes, now)]
    /\ uploaded' = NoUpload
    /\ returned' = NoReturn
    /\ UNCHANGED serviceRest

RoundTripInit ==
    /\ now = 1
    /\ postIts = <<>>
    /\ deletedIds = {}
    /\ edits = 0
    /\ syncState = initialSyncState
    /\ isSyncingRef = FALSE
    /\ previousPostItsRef = <<>>
    /\ autoSyncTimer = FALSE
    /\ revertTimers = 0
    /\ signInTimer = FALSE
    /\ calls = [c \in 1..MaxCalls |-> IdleCall]
    /\ signInPending = FALSE
    /\ mountPending = {}
    /\ storedAuto = "absent"
    /\ storedLastSync = NoSync
    /\ hasToken \in BOOLEAN
    /\ folders = 0
    /\ files = <<>>
    /\ returned = NoReturn
    /\ ManualAtRest
    /\ ProviderAtRest
    /\ MergeAtRest
    /\ OthersAtRest

RoundTripNext ==
    \/ Tick
    \/ \E notes \in UploadArgs, f \in FailPoints : ServiceUpload(notes, f)
    \/ \E f \in FailPoints : ServiceDownload(f)
    \/ \E notes \in UploadArgs : OtherWriter(notes)

SpecRoundTrip == RoundTripInit /\ [][RoundTripNext]_vars

(***************************************************************************)
(* SpecDevices: two installations signed in to one Drive account.  Each    *)
(* holds a note collection and runs GoogleDriveService.syncPostIts on it,  *)
(* applying the result with LOAD_POSTITS; nobody edits.  First the syncs   *)
(* of the two may overlap; then they sync one at a time (settled records   *)
(* the order).                                                             *)
(***************************************************************************)
\* the collections an installation or the Drive file may hold at the start
DevCollections == {s \in Collections(MaxNotes) : Len(s) <= 1}

\* what the devices' actions leave alone
devRest ==
    <<now, noteVars, syncState, isSyncingRef, previousPostItsRef, timerVars,
      calls, signInPending, mountPending, storageVars, hasToken, mergeVars,
      manualVars, provVars, ctxVars, uploaded, extraVars>>

\* syncNow of device d passes its collection to syncPostIts
DevSyncStart(d) ==
    /\ settled = <<>>
    /\ devCalls[d].pc = "idle"
    /\ devSyncs[d] < MaxDevSyncs
    /\ devSyncs' = [devSyncs EXCEPT ![d] = @ + 1]
    /\ devCalls' = [devCalls EXCEPT ![d] =
                       [NoDevCall EXCEPT !.pc = "download",
                                         !.local = devNotes[d]]]
    /\ returned' = NoReturn
    /\ UNCHANGED <<devNotes, settled, driveVars, devRest>>

\* downloadBackup returns to syncPostIts (line 252)
DevSyncDownload(d) ==
    /\ devCalls[d].pc = "download"
    /\ folders' = FoldersAfter("none")
    /\ devCalls' = [devCalls EXCEPT ![d] =
                       [@ EXCEPT !.pc = "upload",
                                 !.backup = DownloadResult("none")]]
    /\ returned' = NoReturn
    /\ UNCHANGED <<devNotes, devSyncs, settled, files, devRest>>

\* the merge, the upload (lines 254-278) and the LOAD_POSTITS of the result
DevSyncUpload(d) ==
    /\ devCalls[d].pc = "upload"
    /\ folders' = FoldersAfter("none")
    /\ files' = FilesAfterUpload(
                    SyncUploadData(devCalls[d].local, devCalls[d].backup),
                    "none")
    /\ devNotes' = [devNotes EXCEPT ![d] =
                       SyncResultOf(devCalls[d].local, devCalls[d].backup,
                                    UploadSucceeds("none")).postIts]
    /\ devCalls' = [devCalls EXCEPT ![d] = NoDevCall]
    /\ returned' = NoReturn
    /\ UNCHANGED <<devSyncs, settled, devRest>>

\* a sync of device d, from download to LOAD_POSTITS, that no other sync
\* overlaps; a device does not settle twice in a row
SettleSync(d) ==
    /\ \A e \in Devices : devCalls[e].pc = "idle"
    /\ Len(settled) < 3
    /\ settled # <<>> => settled[Len(settled)] # d
    /\ settled' = Append(settled, d)
    /\ folders' = FoldersAfter("none")
    /\ files' = FilesAfterUpload(
                    SyncUploadData(devNotes[d], DownloadResult("none")),
                    "none")
    /\ devNotes' = [devNotes EXCEPT ![d] =
                       SyncResultOf(devNotes[d], DownloadResult("none"),
                                    UploadSucceeds("none")).postIts]
    /\ returned' = NoReturn
    /\ UNCHANGED <<devCalls, devSyncs, devRest>>

DevicesInit ==
    /\ now = 1
    /\ postIts = <<>>
    /\ deletedIds = {}
    /\ edits = 0
    /\ syncState = initialSyncState
    /\ isSyncingRef = FALSE
    /\ previousPostItsRef = <<>>
    /\ autoSyncTimer = FALSE
    /\ revertTimers = 0
    /\ signInTimer = FALSE
    /\ calls = [c \in 1..MaxCalls |-> IdleCall]
    /\ signInPending = FALSE
    /\ mountPending = {}
    /\ storedAuto = "absent"
    /\ storedLastSync = NoSync
    /\ hasToken = TRUE
    /\ files \in {<<>>} \cup {<<r>> : r \in DevCollections}
    /\ folders = IF files = <<>> THEN 0 ELSE 1
    /\ returned = NoReturn
    /\ ManualAtRest
    /\ ProviderAtRest
    /\ MergeAtRest
    /\ CtxAtRest
    /\ uploaded = NoUpload
    /\ ExtraAtRest
    /\ devNotes \in [Devices -> DevCollections]
    /\ devCalls = [d \in Devices |-> NoDevCall]
    /\ devSyncs = [d \in Devices |-> 0]
    /\ settled = <<>>

DevicesNext ==
    \/ \E d \in Devices : DevSyncStart(d)
    \/ \E d \in Devices : DevSyncDownload(d)
    \/ \E d \in Devices : DevSyncUpload(d)
    \/ \E d \in Devices : SettleSync(d)

SpecDevices == DevicesInit /\ [][DevicesNext]_vars

(***************************************************************************)
(* SpecOverlap: syncPostIts calls on one Drive account that may overlap,   *)
(* each request of getOrCreateFolder, findBackupFile, downloadBackup and   *)
(* uploadBackup a step of its own.  Folders are numbered in the order of   *)
(* their creation; every request succeeds.                                 *)
(***************************************************************************)
\* what the requests leave alone
raceRest ==
    <<now, noteVars, syncState, isSyncingRef, previousPostItsRef, timerVars,
      calls, signInPending, mountPending, storageVars, hasToken, returned,
      mergeVars, manualVars, provVars, ctxVars, devVars, uploaded, utilVars>>

\* the folder-creating POST of getOrCreateFolder (lines 65-80): the number
\* of folders after it
FoldersAfterCreate_recheck(n) == IF n = 0 THEN 1 ELSE n

FoldersAfterCreate(n) == n + 1

\* the backup files whose parent is the folder
FilesIn(folderId) == {i \in DOMAIN files : fileParents[i] = folderId}

\* data.files[0] of the file search (lines 102-104), 0 for null
FirstFileIn(folderId) ==
    IF FilesIn(folderId) = {} THEN 0
    ELSE CHOOSE i \in FilesIn(folderId) : \A j \in FilesIn(folderId) : i <= j

\* the collection caller d holds: one note of its own
LocalOf(d) == <<[id |-> d, text |-> "a", updatedAt |-> 1]>>

\* syncPostIts(local) is called and reaches its first request
OverlapStart(d) ==
    /\ upCalls[d].pc = "idle"
    /\ upCalls[d].runs < MaxDevSyncs
    /\ upCalls' = [upCalls EXCEPT ![d] =
                      [NoUpCall EXCEPT !.pc = "search", !.local = LocalOf(d),
                                       !.runs = upCalls[d].runs + 1]]
    /\ UNCHANGED <<driveVars, fileParents, raceRest>>

\* the folder search of getOrCreateFolder returns (lines 47-63): the first
\* folder listed, which may be any of them, or none
FolderSearch(d) ==
    /\ upCalls[d].pc = "search"
    /\ IF folders > 0
       THEN \E id \in 1..folders :
                upCalls' = [upCalls EXCEPT ![d].pc = "find",
                                           ![d].folderId = id]
       ELSE upCalls' = [upCalls EXCEPT ![d].pc = "create"]
    /\ UNCHANGED <<driveVars, fileParents, raceRest>>

\* the folder creation of getOrCreateFolder returns (lines 65-80)
FolderCreate(d) ==
    /\ upCalls[d].pc = "create"
    /\ folders' = FoldersAfterCreate(folders)
    /\ upCalls' = [upCalls EXCEPT ![d].pc = "find", ![d].folderId = folders']
    /\ UNCHANGED <<files, fileParents, raceRest>>

\* findBackupFile returns (lines 86-107) to downloadBackup (line 195) or to
\* uploadBackup (line 115)
FileFind(d) ==
    LET call == upCalls[d]
        found == FirstFileIn(call.folderId)
    IN  /\ call.pc = "find"
        /\ upCalls' =
              [upCalls EXCEPT ![d] =
                  IF call.phase = "upload"
                  THEN [call EXCEPT !.pc = "send", !.fileId = found]
                  ELSE IF found = 0
                  THEN [call EXCEPT !.pc = "search", !.phase = "upload",
                                    !.folderId = 0, !.data = call.local]
                  ELSE [call EXCEPT !.pc = "fetch", !.fileId = found]]
        /\ UNCHANGED <<driveVars, fileParents, raceRest>>

\* the content request of downloadBackup returns (lines 202-217) and
\* syncPostIts merges (line 265)
FileFetch(d) ==
    LET call == upCalls[d]
    IN  /\ call.pc = "fetch"
        /\ upCalls' =
              [upCalls EXCEPT ![d] =
                  [call EXCEPT !.pc = "search", !.phase = "upload",
                               !.folderId = 0, !.fileId = 0,
                               !.data = mergePostIts(call.local,
                                                     files[call.fileId])]]
        /\ UNCHANGED <<driveVars, fileParents, raceRest>>

\* the upload request of uploadBackup returns (lines 147-165): PATCH of the
\* file found, else POST of a new file in the folder
FileSend(d) ==
    LET call == upCalls[d]
    IN  /\ call.pc = "send"
        /\ IF call.fileId = 0
           THEN /\ files' = Append(files, call.data)
                /\ fileParents' = Append(fileParents, call.folderId)
           ELSE /\ files' = [files EXCEPT ![call.fileId] = call.data]
                /\ fileParents' = fileParents
        /\ upCalls' = [upCalls EXCEPT ![d] =
                          [NoUpCall EXCEPT !.runs = call.runs]]
        /\ UNCHANGED <<folders, raceRest>>

OverlapInit ==
    /\ now = 1
    /\ postIts = <<>>
    /\ deletedIds = {}
    /\ edits = 0
    /\ syncState = initialSyncState
    /\ isSyncingRef = FALSE
    /\ previousPostItsRef = <<>>
    /\ autoSyncTimer = FALSE
    /\ revertTimers = 0
    /\ signInTimer = FALSE
    /\ calls = [c \in 1..MaxCalls |-> IdleCall]
    /\ signInPending = FALSE
    /\ mountPending = {}
    /\ storedAuto = "absent"
    /\ storedLastSync = NoSync
    /\ hasToken = TRUE
    /\ folders \in {0, 1}
    /\ files \in {<<>>} \cup {<<r>> : r \in DevCollections}
    /\ files # <<>> => folders = 1
    /\ fileParents = [i \in DOMAIN files |-> 1]
    /\ upCalls = [d \in Devices |-> NoUpCall]
    /\ returned = NoReturn
    /\ ManualAtRest
    /\ ProviderAtRest
    /\ MergeAtRest
    /\ CtxAtRest
    /\ DevAtRest
    /\ uploaded = NoUpload
    /\ UtilAtRest

OverlapNext ==
    \/ \E d \in Devices : OverlapStart(d)
    \/ \E d \in Devices : FolderSearch(d)
    \/ \E d \in Devices : FolderCreate(d)
    \/ \E d \in Devices : FileFind(d)
    \/ \E d \in Devices : FileFetch(d)
    \/ \E d \in Devices : FileSend(d)

SpecOverlap == OverlapInit /\ [][OverlapNext]_vars

(***************************************************************************)
(* SpecClamp: clampSize and clampPosition (utils/helpers.ts) applied to    *)
(* arguments around their limits.  A JavaScript number is written          *)
(* [nan, v]: NaN, or the integer v.                                        *)
(***************************************************************************)
minWidth == 100
minHeight == 100
maxWidth == 400
maxHeight == 400

NaN == [nan |-> TRUE, v |-> 0]

Num(v) == [nan |-> FALSE, v |-> v]

\* Math.max and Math.min: NaN when an argument is NaN
MathMax(a, b) ==
    IF a.nan \/ b.nan THEN NaN ELSE IF a.v >= b.v THEN a ELSE b

MathMin(a, b) ==
    IF a.nan \/ b.nan THEN NaN ELSE IF a.v <= b.v THEN a ELSE b

\* a - b of two numbers
Minus(a, b) == IF a.nan \/ b.nan THEN NaN ELSE Num(a.v - b.v)

\* variant that applies the upper limit only
clampValue_noLower(value, min, max) == MathMin(value, max)

\* variant that applies the limits in the other order
clampValue_maxLast(value, min, max) == MathMax(MathMin(value, max), min)

\* clampValue (lines 32-34)
clampValue(value, min, max) == MathMin(MathMax(value, min), max)

\* clampSize (lines 36-49)
clampSize(size) ==
    [width |-> clampValue(size.width, Num(minWidth), Num(maxWidth)),
     height |-> clampValue(size.height, Num(minHeight), Num(maxHeight))]

\* clampPosition (lines 51-61)
clampPosition(position, size, containerWidth, containerHeight) ==
    [x |-> clampValue(position.x, Num(0), Minus(containerWidth, size.width)),
     y |-> clampValue(position.y, Num(0),
                      Minus(containerHeight, size.height))]

Around(v) == {Num(v + k) : k \in (0 - MaxOver)..MaxOver}

\* widths and heights given to clampSize
SizeInputs ==
    {NaN, Num(0)} \cup Around(minWidth) \cup Around(maxWidth)

\* note sizes, container dimensions and coordinates given to clampPosition
NoteSides == {NaN, Num(minWidth), Num(maxWidth)}

ContainerSides == {NaN, Num(minWidth - 1)} \cup Around(maxWidth)

Coordinates == {NaN} \cup Around(0) \cup Around(maxWidth - minWidth)

SizeCalls ==
    {[NoClampArgs EXCEPT !.size = [width |-> w, height |-> h]] :
        w \in SizeInputs, h \in SizeInputs}

PositionCalls ==
    {[position |-> [x |-> x, y |-> y], size |-> [width |-> w, height |-> h],
      containerWidth |-> cw, containerHeight |-> ch] :
        x \in Coordinates, y \in Coordinates, w \in NoteSides,
        h \in NoteSides, cw \in ContainerSides, ch \in ContainerSides}

\* what the clamp calls leave alone
clampRest ==
    <<hookVars, mergeVars, manualVars, provVars, ctxVars, devVars, uploaded,
      raceVars>>

ClampSize ==
    /\ clamped = NoClamped
    /\ clampArgs \in SizeCalls
    /\ clamped' = [op |-> "clampSize",
                   a |-> clampSize(clampArgs.size).width,
                   b |-> clampSize(clampArgs.size).height]
    /\ UNCHANGED <<clampArgs, clampRest>>

ClampPosition ==
    /\ clamped = NoClamped
    /\ clampArgs \in PositionCalls
    /\ clamped' =
          LET r == clampPosition(clampArgs.position, clampArgs.size,
                                 clampArgs.containerWidth,
                                 clampArgs.containerHeight)
          IN  [op |-> "clampPosition", a |-> r.x, b |-> r.y]
    /\ UNCHANGED <<clampArgs, clampRest>>

ClampInit ==
    /\ HookAtRest
    /\ MergeAtRest
    /\ CtxAtRest
    /\ DevAtRest
    /\ uploaded = NoUpload
    /\ RaceAtRest
    /\ clampArgs \in SizeCalls \cup PositionCalls
    /\ clamped = NoClamped

ClampNext ==
    \/ ClampSize
    \/ ClampPosition

SpecClamp == ClampInit /\ [][ClampNext]_vars

(***************************************************************************)
(* Properties of mergePostIts (checked under SpecMerge)                    *)
(***************************************************************************)
\* the notes of collection s that carry this id
Held(s, id) == {s[i] : i \in {k \in DOMAIN s : s[k].id = id}}

\* index pairs of the notes that local and remote share by id
SharedPairs ==
    {ij \in (DOMAIN mLocal) \X (DOMAIN mRemote) :
        mLocal[ij[1]].id = mRemote[ij[2]].id}

\* C1: for every id in both inputs the merge holds the local note exactly
\* when local.updatedAt > remote.updatedAt and otherwise the remote note,
\* whole and unchanged (never a mixture of the two versions).
C1_WholeRecordLastWriterWins ==
    "AB" \in mDone =>
        \A ij \in SharedPairs :
            LET l == mLocal[ij[1]]
                r == mRemote[ij[2]]
            IN  Held(mAB, l.id) =
                    IF l.updatedAt > r.updatedAt THEN {l} ELSE {r}

\* C1 witness: one merge with a shared id won by a newer, different local
\* note and another shared id tied on updatedAt with different content
C1_Witness ==
    /\ "AB" \in mDone
    /\ \E ij \in SharedPairs :
          /\ mLocal[ij[1]].updatedAt > mRemote[ij[2]].updatedAt
          /\ mLocal[ij[1]].text # mRemote[ij[2]].text
    /\ \E ij \in SharedPairs :
          /\ mLocal[ij[1]].updatedAt = mRemote[ij[2]].updatedAt
          /\ mLocal[ij[1]].text # mRemote[ij[2]].text

\* C2: when the inputs share no id the merge has |A|+|B| notes and holds
\* every note of both inputs unchanged.
C2_DisjointUnion ==
    ("AB" \in mDone /\ IdsOf(mLocal) \cap IdsOf(mRemote) = {}) =>
        /\ Len(mAB) = Len(mLocal) + Len(mRemote)
        /\ AsSet(mAB) = AsSet(mLocal) \cup AsSet(mRemote)

\* C2 witness: a merge of two non-empty collections with no common id
C2_Witness ==
    /\ "AB" \in mDone
    /\ mLocal # <<>>
    /\ mRemote # <<>>
    /\ IdsOf(mLocal) \cap IdsOf(mRemote) = {}

\* C3: merging the result again with either input gives the same id-keyed
\* collection: merge(merge(A,B),B) = merge(A,B) = merge(A,merge(A,B)).
C3_Idempotent ==
    /\ "ABB" \in mDone => (AsSet(mABB) = AsSet(mAB) /\ UniqueIds(mABB))
    /\ "AAB" \in mDone => (AsSet(mAAB) = AsSet(mAB) /\ UniqueIds(mAAB))

\* C3 witness: both re-merges made where the first merge resolved a
\* conflict in favour of a newer local note and kept a remote-only note
C3_Witness ==
    /\ {"ABB", "AAB"} \subseteq mDone
    /\ \E ij \in SharedPairs :
          /\ mLocal[ij[1]].updatedAt > mRemote[ij[2]].updatedAt
          /\ mLocal[ij[1]].text # mRemote[ij[2]].text
    /\ IdsOf(mRemote) \ IdsOf(mLocal) # {}

\* shared ids whose two versions tie on updatedAt but differ in content
TiedPairs ==
    {ij \in SharedPairs :
        /\ mLocal[ij[1]].updatedAt = mRemote[ij[2]].updatedAt
        /\ mLocal[ij[1]] # mRemote[ij[2]]}

\* C4: without a tie of differing versions merge(A,B) and merge(B,A) are the
\* same id-keyed collection; with such a tie they differ and each holds its
\* own second argument's version of the tied note.
C4_CommutativeExceptTies ==
    {"AB", "BA"} \subseteq mDone =>
        /\ TiedPairs = {} => AsSet(mAB) = AsSet(mBA)
        /\ TiedPairs # {} =>
              /\ AsSet(mAB) # AsSet(mBA)
              /\ \A ij \in TiedPairs :
                    /\ Held(mAB, mRemote[ij[2]].id) = {mRemote[ij[2]]}
                    /\ Held(mBA, mLocal[ij[1]].id) = {mLocal[ij[1]]}

\* C4 witness: both orders merged for inputs with one tied, differing id and
\* one id whose versions differ in updatedAt
C4_Witness ==
    /\ {"AB", "BA"} \subseteq mDone
    /\ TiedPairs # {}
    /\ \E ij \in SharedPairs :
          mLocal[ij[1]].updatedAt # mRemote[ij[2]].updatedAt

(***************************************************************************)
(* Properties of syncPostIts and of the hook's handling of its result      *)
(* (checked under SpecSync).  A syncPostIts call has just returned in the  *)
(* states where returned.op = "syncPostIts"; in the same step the hook     *)
(* applied the result.                                                     *)
(***************************************************************************)
SyncReturned == returned.op = "syncPostIts"

\* C5: a note deleted locally while the remote snapshot still holds it is
\* back in the local collection, and still in the remote snapshot, once the
\* next successful sync has been applied.
C5_DeletedNoteReappears ==
    (SyncReturned /\ returned.success /\ returned.hadFile) =>
        \A id \in returned.deleted \cap IdsOf(returned.before) :
            /\ id \in IdsOf(postIts)
            /\ files # <<>>
            /\ id \in IdsOf(files[1])

\* the same when the download of that sync did not fail
DeletedNoteReappearsAfterDownload ==
    (SyncReturned /\ returned.success /\ returned.hadFile
        /\ ~returned.downloadFailed) =>
        \A id \in returned.deleted \cap IdsOf(returned.before) :
            /\ id \in IdsOf(postIts)
            /\ files # <<>>
            /\ id \in IdsOf(files[1])

\* a successful sync has just been applied over a local deletion of a note
\* the remote snapshot held
DeletionMetSync ==
    /\ SyncReturned
    /\ returned.success
    /\ returned.hadFile
    /\ ~returned.downloadFailed
    /\ returned.deleted \cap IdsOf(returned.before) # {}

\* C6 as stated: with no remote backup file, syncPostIts uploads the local
\* notes verbatim and returns success=true, the same notes and a conflict
\* count of 0.
C6_InitialBackupAsStated ==
    (SyncReturned /\ ~returned.hadFile) =>
        /\ files = <<returned.local>>
        /\ returned.success
        /\ returned.postIts = returned.local
        /\ returned.conflictsResolved = 0

\* C6 amended: with no remote backup file, syncPostIts returns the local
\* notes unchanged and no conflict count; when its upload succeeds the remote
\* snapshot is the local notes verbatim and success=true, when the upload
\* fails success=false and there is still no remote file.
C6_InitialBackup ==
    (SyncReturned /\ ~returned.hadFile) =>
        /\ returned.postIts = returned.local
        /\ returned.conflictsResolved = NoCount
        /\ returned.message = "Initial backup created"
        /\ returned.success => files = <<returned.local>>
        /\ ~returned.success => files = <<>>

\* C6 witness: a first sync of a non-empty collection that created the file
C6_Witness ==
    /\ SyncReturned
    /\ ~returned.hadFile
    /\ returned.success
    /\ returned.local # <<>>
    /\ files = <<returned.local>>

\* C7: with a remote snapshot present, a successful syncPostIts leaves the
\* remote notes equal to merge(local, previous remote), returns that merged
\* collection, and after the hook applied it local and remote are the same.
C7_SyncLeavesMerge ==
    (SyncReturned /\ returned.hadFile /\ returned.success) =>
        LET merged == mergePostIts(returned.local, returned.before)
        IN  /\ files = <<merged>>
            /\ returned.postIts = merged
            /\ postIts = files[1]

\* the same when the download of that sync did not fail
SyncLeavesMergeAfterDownload ==
    (SyncReturned /\ returned.hadFile /\ returned.success
        /\ ~returned.downloadFailed) =>
        LET merged == mergePostIts(returned.local, returned.before)
        IN  /\ files = <<merged>>
            /\ returned.postIts = merged
            /\ postIts = files[1]

\* C8: when the download step fails while a remote backup exists, syncPostIts
\* returns success=false, the remote snapshot is not overwritten, the status
\* is ERROR and lastSyncAt is not advanced.
C8_DownloadFailureReported ==
    (SyncReturned /\ returned.hadFile /\ returned.downloadFailed) =>
        /\ ~returned.success
        /\ files = <<returned.before>>
        /\ syncState.status = ERROR
        /\ syncState.lastSyncAt = returned.lastSyncBefore

\* ids in both collections whose two versions differ
Conflicts(local, remote) ==
    {id \in IdsOf(local) \cap IdsOf(remote) :
        Held(local, id) # Held(remote, id)}

\* C9: the conflict count returned by syncPostIts is the number of ids in
\* both the local and the remote collection whose versions differ.
C9_ConflictCount ==
    (SyncReturned /\ returned.hadFile /\ ~returned.downloadFailed) =>
        returned.conflictsResolved =
            Cardinality(Conflicts(returned.local, returned.before))

(***************************************************************************)
(* Properties of the orchestrator (checked under Spec)                     *)
(***************************************************************************)
\* C10: at most one call of GoogleDriveService.syncPostIts is in flight,
\* whatever the interleaving of manual, debounced, foreground and
\* post-sign-in syncNow calls.
C10_AtMostOneSyncInFlight == Cardinality(InFlight) <= 1

\* C10 witness: a syncNow call was refused as already in progress while a
\* syncPostIts call is in flight
C10_Witness ==
    /\ Cardinality(InFlight) = 1
    /\ returned.op = "syncNow"
    /\ returned.message = "Sync already in progress"

\* a syncNow request made through the hook's current callback
CurrentSyncNowRequest == ManualSyncNow \/ AutoSyncTimerFire \/ AppForeground

\* a syncNow request of any origin, the post-sign-in call included
SyncNowRequest == CurrentSyncNowRequest \/ SignInTimerFire

\* the request was refused as already in progress and changed nothing
RefusedAsInProgress ==
    /\ returned'.op = "syncNow"
    /\ ~returned'.success
    /\ returned'.message = "Sync already in progress"
    /\ UNCHANGED <<syncState, isSyncingRef, calls, driveVars>>

\* C12: while a sync is in flight and the orchestrator is connected, a
\* further syncNow request returns success=false with 'Sync already in
\* progress', makes no remote call and leaves the sync state and the guard
\* flag unchanged.
C12_RefusedWhileInFlight ==
    [][(InFlight # {} /\ syncState.isConnected /\ SyncNowRequest)
          => RefusedAsInProgress]_vars

\* the same for the requests made through the current callback
RefusedWhileInFlightCurrentCallback ==
    [][(InFlight # {} /\ syncState.isConnected /\ CurrentSyncNowRequest)
          => RefusedAsInProgress]_vars

\* the messages of the failures a sync can meet on Drive
FailureMessages ==
    {"Not authenticated. Please sign in first.",
     "Failed to search for folder", "Failed to search for backup file",
     "Upload failed", "Failed to download backup"}

\* a syncNow request passed the guard in this step
SyncAccepted == SyncNowRequest /\ ActiveCalls' # ActiveCalls

\* the status, the lastSyncAt and the stored lastSyncAt after each step of an
\* accepted sync (the write to storage taken as not failing)
SyncSteps(errors) ==
    /\ SyncAccepted => syncState'.status = SYNCING
    /\ (returned'.op = "syncPostIts" /\ returned'.success) =>
          /\ syncState'.status = SUCCESS
          /\ syncState'.lastSyncAt = now
          /\ syncState'.error = NoError
    /\ (returned'.op = "syncPostIts" /\ ~returned'.success) =>
          /\ syncState'.status = ERROR
          /\ syncState'.error \in errors
          /\ syncState'.lastSyncAt = syncState.lastSyncAt
          /\ storedLastSync' = storedLastSync
    /\ \A c \in 1..MaxCalls :
          SyncSaved(c, "none") => storedLastSync' = calls[c].newLastSync

\* C14: an accepted sync moves status to SYNCING and on completion to
\* SUCCESS, with lastSyncAt the completion time and the same value stored,
\* or to ERROR with the failure message and lastSyncAt kept, in memory and
\* in storage.
C14_SyncCompletion == [][SyncSteps(FailureMessages)]_vars

\* the same with the message that syncPostIts puts on its result
SyncCompletionWithResultMessage ==
    [][SyncSteps({"Initial backup created", "Sync completed"})]_vars

(***************************************************************************)
(* Properties of the auto-sync effect (checked under SpecAuto)             *)
(***************************************************************************)
\* the user changed the note collection in this step
UserEdit == edits' # edits

\* a change made while connected, with auto-sync enabled and not syncing,
\* leaves a debounce timer pending
BurstSchedulesSync ==
    (UserEdit /\ syncState.isConnected /\ syncState.autoSyncEnabled
        /\ syncState.status # SYNCING) => autoSyncTimer'

\* the sync that the debounce timer starts is given the note collection as
\* of the last change
TimerPassesLatestNotes ==
    (AutoSyncTimerFire /\ ActiveCalls' # ActiveCalls) =>
        \E c \in ActiveCalls' \ ActiveCalls : calls'[c].local = postIts

\* once a sync of the current note collection has returned, no further sync
\* of that collection is scheduled
NoSecondSyncForBurst ==
    (returned'.op = "syncPostIts" /\ postIts' = returned'.local)
        => ~autoSyncTimer'

\* C16: for a burst of changes (connected, auto-sync enabled, not syncing)
\* exactly one sync executes, started by the debounce timer once the changes
\* have stopped, with the note collection as of the last change.
C16_DebouncedAutoSync ==
    [][BurstSchedulesSync /\ TimerPassesLatestNotes
          /\ NoSecondSyncForBurst]_vars

\* the part of C16 about which notes the debounced sync is given
DebouncedSyncGetsLatestNotes == [][TimerPassesLatestNotes]_vars

\* the part of C16 that excludes a second sync for the same burst
OneSyncPerBurst == [][NoSecondSyncForBurst]_vars

\* a change schedules a sync when the changed collection is also non-empty
\* and differs from the last synced one
EligibleBurstSchedulesSync ==
    [][(postIts' # <<>> /\ postIts' # previousPostItsRef)
          => BurstSchedulesSync]_vars

\* the conditions under which a debounced auto-sync may be pending, in the
\* state after the step
EligibleAfter ==
    /\ syncState'.isConnected
    /\ syncState'.autoSyncEnabled
    /\ syncState'.status # SYNCING
    /\ postIts' # <<>>
    /\ postIts' # previousPostItsRef'

\* one of the values the auto-sync effect depends on changed in this step
EffectInputsChanged ==
    \/ postIts' # postIts
    \/ syncState'.isConnected # syncState.isConnected
    \/ syncState'.autoSyncEnabled # syncState.autoSyncEnabled
    \/ syncState'.status # syncState.status

SyncEndsInError ==
    /\ syncState.status = SYNCING
    /\ syncState'.status = ERROR
    /\ postIts' = postIts

ErrorRevertsToIdle ==
    /\ syncState.status = ERROR
    /\ syncState'.status = IDLE
    /\ postIts' = postIts

\* C18: the orchestrator never retries on its own: the status changes
\* Syncing -> Error -> Idle never schedule another sync, so no debounce
\* timer is set by a step in which a sync ends in Error or the Error status
\* reverts to Idle.
C18_NoRetryAfterError ==
    [][(SyncEndsInError \/ ErrorRevertsToIdle)
           => (autoSyncTimer' => autoSyncTimer)]_vars

\* the part of C18 that holds: a failed sync starts no other sync in the
\* same step (the set of calls in progress only shrinks)
FailedSyncStartsNoSync ==
    [][(SyncEndsInError \/ ErrorRevertsToIdle)
           => (InFlight' \subseteq InFlight)]_vars

(***************************************************************************)
(* Properties of the foreground handler and of signIn (checked under Spec) *)
(***************************************************************************)

\* C19: when the application becomes active while connected the
\* orchestrator starts a silent sign-in to re-validate the credential and,
\* with auto-sync enabled, starts a sync at once, without the debounce
\* timer.
C19_ForegroundRevalidatesAndSyncs ==
    [][AppForeground =>
           /\ "auth" \in mountPending'
           /\ ~isSyncingRef => (isSyncingRef' /\ syncState'.status = SYNCING)]_vars

\* the part of C19 that holds for the hook: the foreground event starts a
\* sync at once unless one is in progress, and never a silent sign-in
ForegroundSyncsWithoutRevalidation ==
    [][AppForeground =>
           /\ mountPending' = mountPending
           /\ ~isSyncingRef => (isSyncingRef' /\ syncState'.status = SYNCING)]_vars

\* ... and for SyncProvider: the foreground event starts the silent sign-in
\* and never a sync
ProviderForegroundNeverSyncs ==
    [][PAppForeground =>
           /\ pMountPending' = pMountPending \cup {"auth"}
           /\ PInFlight' = PInFlight]_vars

\* what a cancelled sign-in leaves behind according to signIn's else branch
BackToIdle ==
    /\ syncState'.status = IDLE
    /\ syncState'.isConnected = syncState.isConnected

\* C20: signIn has three outcomes: success of the credential provider sets
\* isConnected, stores the user and sets status Success; cancellation
\* returns to Idle with no error and isConnected unchanged; a hard failure
\* of the credential provider (token exchange or user-info request) sets
\* status Error with a message.
C20_SignInOutcomes ==
    [][/\ SignInFinish("user") =>
              /\ syncState'.isConnected
              /\ syncState'.user = TheUser
              /\ syncState'.status = SUCCESS
       /\ SignInFinish("cancelled") =>
              /\ BackToIdle
              /\ syncState'.error = NoError
       /\ SignInFinish("failedLate") =>
              /\ syncState'.status = ERROR
              /\ syncState'.error # NoError]_vars

\* what signIn does: a hard failure is handled like a cancellation, and
\* neither touches the error field
SignInFailureLooksLikeCancel ==
    [][/\ SignInFinish("user") =>
              /\ syncState'.isConnected
              /\ syncState'.user = TheUser
              /\ syncState'.status = SUCCESS
       /\ (SignInFinish("cancelled") \/ SignInFinish("failedLate")) =>
              /\ BackToIdle
              /\ syncState'.error = syncState.error]_vars

(***************************************************************************)
(* Properties of signOut (checked under SpecAuto, where only the silent    *)
(* sign-in at mount connects: a sync that returns while not connected was  *)
(* in flight when the user signed out)                                     *)
(***************************************************************************)
\* what signOut keeps: the notes, the auto-sync setting and the last sync
SignOutKeeps ==
    /\ postIts' = postIts
    /\ syncState'.autoSyncEnabled = syncState.autoSyncEnabled
    /\ syncState'.lastSyncAt = syncState.lastSyncAt

\* the state signOut establishes
SignedOutAfter ==
    /\ ~syncState'.isConnected
    /\ syncState'.user = NoUser
    /\ syncState'.status = IDLE

\* a syncPostIts call returns to syncNow after the user has signed out
SyncReturnsSignedOut ==
    /\ ~syncState.isConnected
    /\ \E c \in 1..MaxCalls, f \in FailPoints : SyncUpload(c, f)

\* C21: signOut sets isConnected to false, user to absent and status to
\* Idle and leaves the notes, autoSyncEnabled and lastSyncAt unchanged; all
\* of this still holds when a sync that was in flight at signOut returns.
C21_SignOutResets ==
    [][/\ SignOut(TRUE) => (SignedOutAfter /\ SignOutKeeps)
       /\ SyncReturnsSignedOut => (SignedOutAfter /\ SignOutKeeps)]_vars

\* the part of C21 that holds: signOut itself resets and keeps as stated,
\* and a sync returning afterwards changes the status and the error only
SignOutResetsButStatus ==
    [][/\ SignOut(TRUE) => (SignedOutAfter /\ SignOutKeeps)
       /\ SyncReturnsSignedOut =>
              /\ ~syncState'.isConnected
              /\ syncState'.user = NoUser
              /\ syncState'.status = ERROR
              /\ SignOutKeeps]_vars

(***************************************************************************)
(* Properties of edits made during a sync (checked under SpecSync)         *)
(***************************************************************************)
\* every note the collection holds that the running call c was not given
\* (added or changed since the call started) is still held after the step,
\* as it is or in a strictly newer version
InFlightEditKept(c) ==
    \A i \in DOMAIN postIts :
        postIts[i] \notin AsSet(calls[c].local) =>
            \E j \in DOMAIN postIts' :
                /\ postIts'[j].id = postIts[i].id
                /\ \/ postIts'[j] = postIts[i]
                   \/ postIts'[j].updatedAt > postIts[i].updatedAt

\* C22: an edit made while a sync is in flight is not part of what that sync
\* merges or uploads, applies to the local collection at once, and is still
\* in the local collection after the sync's merged result has been applied.
C22_InFlightEditSurvives ==
    [][/\ (InFlight # {} /\ UserEdit) => (calls' = calls /\ files' = files)
       /\ \A c \in 1..MaxCalls :
              ((\E f \in FailPoints : SyncUpload(c, f)) /\ returned'.success)
                  => InFlightEditKept(c)]_vars

\* the part of C22 that holds: the edit does not reach the running sync,
\* whose result then replaces the collection with what was merged
InFlightEditOverwritten ==
    [][/\ (InFlight # {} /\ UserEdit) => (calls' = calls /\ files' = files)
       /\ \A c \in 1..MaxCalls :
              ((\E f \in FailPoints : SyncUpload(c, f)) /\ returned'.success)
                  => postIts' = SyncUploadData(calls[c].local,
                                               calls[c].backup)]_vars

(***************************************************************************)
(* Properties of the note collection (checked under SpecReducer)           *)
(***************************************************************************)
\* the greatest zIndex among the notes, 0 when there are none
TrueMaxZ(s) ==
    IF s = <<>> THEN 0
    ELSE LET zs == {s[i].zIndex : i \in DOMAIN s}
         IN  CHOOSE z \in zs : \A y \in zs : y <= z

\* C23: after every reducer action the tracked maxZIndex equals the greatest
\* zIndex over the notes in the collection (0 for an empty collection).
C23_MaxZIndexIsMaximum == state.maxZIndex = TrueMaxZ(state.postIts)

\* the part of C23 that holds: LOAD_POSTITS and MERGE_POSTITS recompute
\* maxZIndex from the notes
MaxZIndexAfterLoadOrMerge ==
    [][(\/ \E saved \in BOOLEAN : CtxLoadData(saved)
        \/ \E r \in RemoteSnapshots, saved \in BOOLEAN :
               \/ CtxLoadPostIts(r, saved)
               \/ CtxLoadBackup(r, saved)
               \/ CtxMergePostIts(r, saved))
           => state'.maxZIndex = TrueMaxZ(state'.postIts)]_vars

\* C24: in every reachable state of the note collection no two notes have
\* the same id, whatever sequence of add, delete, update, load of a stored
\* collection, a backup or a sync result, and merge led to it.
C24_IdsUnique == UniqueIds(state.postIts)

\* C24 witness: the collection holds two notes after a merge or a load of a
\* sync result that met a note with an id the collection already had
C24_Witness ==
    /\ Len(state.postIts) > 1
    /\ dispatched > 1
    /\ \E i \in DOMAIN state.postIts :
           /\ state.postIts[i].id = 1
           /\ state.postIts[i].text = "b"
    /\ storedPostIts # <<>>

\* a step of one of the four field updates on a note id
FieldUpdate(id) ==
    /\ dispatched' # dispatched
    /\ created' = created
    /\ loadPending' = loadPending
    /\ \E saved \in BOOLEAN :
        \/ \E position \in Positions : CtxUpdatePosition(id, position, saved)
        \/ \E size \in Sizes : CtxUpdateSize(id, size, saved)
        \/ \E color \in Colors : CtxUpdateColor(id, color, saved)
        \/ \E text \in Texts : CtxUpdateText(id, text, saved)

\* the fields of note p that differ in note q
ChangedFields(p, q) == {k \in DOMAIN p : p[k] # q[k]}

\* the update left its mark on note i only: updatedAt is the current time,
\* at most one of position, size, color and text changed, and the value of
\* that field is the one given
OnlyTargetChanged(id) ==
    /\ Len(state'.postIts) = Len(state.postIts)
    /\ \A i \in DOMAIN state.postIts :
           IF state.postIts[i].id = id
           THEN /\ state'.postIts[i].updatedAt = now
                /\ Cardinality(ChangedFields(state.postIts[i],
                                             state'.postIts[i])
                                   \ {"updatedAt"}) <= 1
                /\ ChangedFields(state.postIts[i], state'.postIts[i])
                       \subseteq {"updatedAt", "position", "size", "color",
                                  "text"}
           ELSE state'.postIts[i] = state.postIts[i]
    /\ state'.selectedId = state.selectedId
    /\ state'.maxZIndex = state.maxZIndex

\* the field is set to the value given
FieldSet(id) ==
    \A i \in DOMAIN state.postIts :
        state.postIts[i].id = id =>
            \A saved \in BOOLEAN :
                /\ \A position \in Positions :
                       CtxUpdatePosition(id, position, saved)
                           => state'.postIts[i].position = position
                /\ \A size \in Sizes :
                       CtxUpdateSize(id, size, saved)
                           => state'.postIts[i].size = size
                /\ \A color \in Colors :
                       CtxUpdateColor(id, color, saved)
                           => state'.postIts[i].color = color
                /\ \A text \in Texts :
                       CtxUpdateText(id, text, saved)
                           => state'.postIts[i].text = text

\* C25: a position, size, colour or text update on an existing id sets that
\* note's updatedAt to the current time and changes the targeted field
\* only (id, createdAt, zIndex, every other note, selectedId and maxZIndex
\* stay); on an id not in the collection it changes nothing.
C25_FieldUpdateFrame ==
    [][\A id \in TargetIds :
           FieldUpdate(id) =>
               IF id \in IdsOf(state.postIts)
               THEN OnlyTargetChanged(id) /\ FieldSet(id)
               ELSE state' = state]_vars

\* C25 witness: the colour of note 1, yellow in every stored collection and
\* backup, has been changed while a second note is in the collection
C25_Witness ==
    /\ Len(state.postIts) > 1
    /\ \E i \in DOMAIN state.postIts :
           /\ state.postIts[i].id = 1
           /\ state.postIts[i].color = "pink"
           /\ state.postIts[i].updatedAt = now

(***************************************************************************)
(* Properties of the Drive store (checked under SpecManual, where each     *)
(* request sequence of the one client is a step of its own)                *)
(***************************************************************************)
\* a step that writes the Drive store creates the folder or the file when
\* there was none and otherwise keeps their number
CreatesOnlyWhenAbsent ==
    /\ folders' = IF folders = 0 /\ folders' # folders THEN 1 ELSE folders
    /\ Len(files') = IF files = <<>> /\ files' # files THEN 1 ELSE Len(files)

\* C26: with the calls of one client one after the other, Drive never holds
\* more than one application folder or more than one backup file: the first
\* upload creates the file and every later upload replaces its content.
C26_OneFolderOneFile ==
    /\ [](folders <= 1 /\ Len(files) <= 1)
    /\ [][CreatesOnlyWhenAbsent]_vars

\* C26 witness: a second successful upload has returned and Drive holds one
\* folder and one file
C26_Witness ==
    /\ returned.op = "uploadBackup"
    /\ returned.success
    /\ returned.lastSyncBefore # NoSync
    /\ folders = 1
    /\ Len(files) = 1

Converged ==
    /\ Len(files) = 1
    /\ AsSet(devNotes[1]) = AsSet(devNotes[2])
    /\ AsSet(files[1]) = AsSet(devNotes[1])

LoadedAutoSync == IF storedAuto = "absent" THEN TRUE ELSE storedAuto = "true"

\* C29: the auto-sync setting is durable: whatever syncs have succeeded or
\* failed since toggleAutoSync set autoSyncEnabled, a restart
\* (loadSyncSettings) would yield the value the orchestrator holds.
C29_AutoSyncDurable == LoadedAutoSync = syncState.autoSyncEnabled

\* the part of C29 that holds: toggleAutoSync stores the value it sets, and
\* the stored value is lost only when a sync saves its lastSyncAt
AutoSyncStoredUntilSyncSaves ==
    [][/\ ToggleAutoSync => LoadedAutoSync' = syncState'.autoSyncEnabled
       /\ (storedAuto' # storedAuto /\ ~ToggleAutoSync) =>
              /\ \E c \in 1..MaxCalls : calls[c].pc = "saving"
              /\ storedAuto' = "absent"]_vars

(***************************************************************************)
(* Properties of exceptions in the orchestrator's operations (checked      *)
(* under SpecManual)                                                       *)
(***************************************************************************)
\* the operation returned a non-success result (or absent) and left status
\* ERROR with one of the given messages
ReportedAsError(messages) ==
    /\ ~returned'.success
    /\ syncState'.status = ERROR
    /\ syncState'.error \in messages

\* uploadBackup returns in this step after a request of its sequence failed
UploadBackupRaised(f) == UploadBackupFinish(f) /\ ~UploadSucceeds(f)

\* downloadBackup returns in this step after a request of its sequence failed
DownloadBackupRaised(f) == DownloadBackupFinish(f) /\ DownloadFailed(f)

\* syncNow's call of syncPostIts returns in this step after a request of its
\* download or of its upload failed
SyncRaised(c, f) ==
    SyncUpload(c, f) /\ (calls[c].downloadFailed \/ ~UploadSucceeds(f))

\* C30: an exception raised while syncNow, uploadBackup or downloadBackup
\* runs is caught: the operation returns a non-success result (or absent)
\* and status is ERROR with the exception's message.
C30_ExceptionsBecomeError ==
    [][/\ \A f \in FailPoints :
              UploadBackupRaised(f) => ReportedAsError({UploadMessage(f)})
       /\ \A f \in FailPoints :
              DownloadBackupRaised(f) => ReportedAsError(FailureMessages)
       /\ \A c \in 1..MaxCalls, f \in FailPoints :
              SyncRaised(c, f) => ReportedAsError(FailureMessages)]_vars

\* what the code does: uploadBackup reports the failure as stated;
\* downloadBackup returns absent with status IDLE and the error untouched;
\* syncNow reports a failed upload with the text syncPostIts puts on its
\* result, and a failed download only through the upload that follows
ExceptionsAsHandled ==
    [][/\ \A f \in FailPoints :
              UploadBackupRaised(f) => ReportedAsError({UploadMessage(f)})
       /\ \A f \in FailPoints :
              DownloadBackupRaised(f) =>
                  /\ ~returned'.success
                  /\ syncState'.status = IDLE
                  /\ syncState'.error = syncState.error
       /\ \A c \in 1..MaxCalls, f \in FailPoints :
              SyncRaised(c, f) =>
                  IF UploadSucceeds(f)
                  THEN returned'.success /\ syncState'.status = SUCCESS
                  ELSE ReportedAsError({"Initial backup created",
                                        "Sync completed"})]_vars

(***************************************************************************)
(* Properties of overlapping first syncs (checked under SpecOverlap)       *)
(***************************************************************************)
\* C31: nothing but the search guards the creation: a call whose search
\* found no folder creates one also when another call has created one in
\* the meantime, and a call whose search found no backup file creates one
\* also when another call has since created one in the same folder; so two
\* overlapping first syncs can leave two folders and two backup files.
C31_CreateAfterStaleSearch ==
    [][\A d \in Devices :
          /\ FolderCreate(d) => folders' = folders + 1
          /\ (FileSend(d) /\ upCalls[d].fileId = 0) =>
                 Len(files') = Len(files) + 1]_vars

\* C31 witness: both calls have returned and Drive holds two folders and
\* two backup files where there was none
C31_Witness ==
    /\ folders = 2
    /\ Len(files) = 2
    /\ \A d \in Devices : upCalls[d].pc = "idle" /\ upCalls[d].runs = 1

(***************************************************************************)
(* Properties of the clamp functions (checked under SpecClamp)             *)
(***************************************************************************)
\* n is a number between lo and hi
InRange(n, lo, hi) == ~n.nan /\ lo <= n.v /\ n.v <= hi

\* one side of a clampSize call: the result is within the limits and an
\* argument within the limits is returned as it is
SideClamped(arg, result, lo, hi) ==
    /\ InRange(result, lo, hi)
    /\ InRange(arg, lo, hi) => result = arg

AxisClamped(coordinate, side, container, result) ==
    IF coordinate.nan \/ side.nan \/ container.nan THEN result.nan
    ELSE IF container.v >= side.v
    THEN InRange(result, 0, container.v - side.v)
    ELSE result = Num(container.v - side.v)

C33_SizeInRange ==
    clamped.op = "clampSize" =>
        /\ SideClamped(clampArgs.size.width, clamped.a, minWidth, maxWidth)
        /\ SideClamped(clampArgs.size.height, clamped.b, minHeight,
                       maxHeight)

\* C33 amended: for every input width and height other than NaN the
\* result's width and height lie in [100, 400] and an input in that range
\* is returned unchanged; a NaN width or height is returned as NaN.
C33_SizeInRangeUnlessNaN ==
    clamped.op = "clampSize" =>
        /\ IF clampArgs.size.width.nan THEN clamped.a.nan
           ELSE SideClamped(clampArgs.size.width, clamped.a, minWidth,
                            maxWidth)
        /\ IF clampArgs.size.height.nan THEN clamped.b.nan
           ELSE SideClamped(clampArgs.size.height, clamped.b, minHeight,
                            maxHeight)

\* C33 witness: a width below the lower limit was raised to it and a height
\* above the upper limit was lowered to it
C33_Witness ==
    /\ clamped.op = "clampSize"
    /\ InRange(clampArgs.size.width, 0, minWidth - 1)
    /\ clamped.a = Num(minWidth)
    /\ InRange(clampArgs.size.height, maxHeight + 1, maxHeight + MaxOver)
    /\ clamped.b = Num(maxHeight)

(***************************************************************************)
(* Properties of the stacking order (checked under SpecReducer)            *)
(***************************************************************************)
\* the note with this id is above every other note of the collection
OnTop(s, id) ==
    \A i, j \in DOMAIN s :
        (s[i].id = id /\ s[j].id # id) => s[i].zIndex > s[j].zIndex

\* the ids of the notes created in this step
NewIds == IdsOf(state'.postIts) \ IdsOf(state.postIts)

\* a step of bringToFront on a note of the collection
BroughtToFront(id) ==
    /\ id \in IdsOf(state.postIts)
    /\ \E saved \in BOOLEAN : CtxBringToFront(id, saved)

\* C34: a newly created note and a note brought to front each receive a
\* zIndex strictly greater than that of every other note in the collection
\* at that moment, also when addPostIt is called twice before the provider
\* renders again and when the top-most note was deleted before.
C34_NewAndFrontOnTop ==
    [][/\ created' # created =>
              \A id \in NewIds : OnTop(state'.postIts, id)
       /\ \A id \in TargetIds :
              BroughtToFront(id) => OnTop(state'.postIts, id)]_vars

\* what holds of the notes created in one render: each is above every
\* note that was there before, and the two of a double call share a zIndex
NewAboveOlderNotes ==
    [][created' # created =>
          \A i, j \in DOMAIN state'.postIts :
              /\ (state'.postIts[i].id \in NewIds
                    /\ state'.postIts[j].id \notin NewIds)
                     => state'.postIts[i].zIndex > state'.postIts[j].zIndex
              /\ (state'.postIts[i].id \in NewIds
                    /\ state'.postIts[j].id \in NewIds)
                     => state'.postIts[i].zIndex
                            = state'.postIts[j].zIndex]_vars

(***************************************************************************)
(* Properties of the status during a sync (checked under SpecManual)       *)
(***************************************************************************)
\* C35: whenever the in-flight guard is set and a syncPostIts call is
\* pending, status is SYNCING: no revert timer of an earlier sync, no
\* sign-out and no manual upload or download moves it away meanwhile.
C35_SyncingWhileGuarded ==
    (isSyncingRef /\ InFlight # {}) => syncState.status = SYNCING

(***************************************************************************)
(* Properties of the release of the guard (checked under SpecProvider)     *)
(***************************************************************************)

\* A step on which an accepted SyncProvider.syncNow call ends: a failure
\* result or a raised exception of the service, or the end of the
\* bookkeeping after a success.
PSyncFinished(c) ==
    \/ (\E f \in FailPoints : PSyncUpload(c, f)) /\ ~returned'.success
    \/ \E f \in {"none", "lastSync"} : PSyncSaved(c, f)

\* A syncNow request made through the provider.
PSyncNowRequest == HandleSyncNow \/ HandleSignInTimerFire

\* C36: the in-flight guard is always released: the step that ends an
\* accepted sync (success, failure result or exception) leaves the guard
\* clear, and a syncNow request made while connected and with no sync in
\* flight is never rejected as 'Sync already in progress'.
C36_GuardReleased ==
    [][ /\ \A c \in 1..MaxCalls : PSyncFinished(c) => ~pIsSyncing'
        /\ (PActiveCalls = {} /\ pSyncState.isConnected /\ PSyncNowRequest)
              => returned'.message # "Sync already in progress" ]_vars

(***************************************************************************)
(* Properties of manual backups during a sync (checked under SpecManual)   *)
(***************************************************************************)

\* A step on which a manual uploadBackup or downloadBackup has its request
\* answered by the remote store.
ManualReachesStore ==
    \E f \in FailPoints : UploadBackupFinish(f) \/ DownloadBackupFinish(f)

\* the sync calls that have downloaded and not yet uploaded
BetweenDownloadAndUpload == {c \in 1..MaxCalls : calls[c].pc = "upload"}

\* C37: manual uploadBackup and downloadBackup are serialised with sync:
\* while a syncPostIts call is in flight no manual call reaches the remote
\* store, so the stored file is never replaced by a manual upload between a
\* sync's download and its upload.
C37_ManualSerializedWithSync ==
    [][ /\ ManualReachesStore => InFlight = {}
        /\ (\E f \in FailPoints : UploadBackupFinish(f))
              => (BetweenDownloadAndUpload = {} \/ files' = files) ]_vars

(***************************************************************************)
(* Properties of the connection state (checked under SpecProvider)         *)
(***************************************************************************)

\* C38: in every reachable sync state isConnected is true exactly when a
\* user is present, whatever the order of the silent sign-in at mount,
\* signIn, signOut, the re-validation at foreground and the end of a sync.
C38_ConnectedIffUser ==
    pSyncState.isConnected <=> (pSyncState.user # NoUser)

\* a sync has returned with success to a connected provider
C38_Witness ==
    /\ returned.op = "SyncProvider.syncPostIts"
    /\ returned.success
    /\ pSyncState.isConnected
    /\ pSyncState.user = TheUser

(***************************************************************************)
(* Properties of the stored last sync (checked under SpecManual)           *)
(***************************************************************************)

\* no sync, manual upload, manual download or settings load is under way
NoOperationPending ==
    /\ ActiveCalls = {}
    /\ uploadCall.pc = "idle"
    /\ downloadCall.pc = "idle"
    /\ "settings" \notin mountPending

\* C39: once an operation has finished, the persisted last-sync timestamp
\* equals the in-memory lastSyncAt: sync, manual upload and manual download
\* each write to storage the value they put in the sync state.
C39_StoredLastSyncIsShown ==
    NoOperationPending => storedLastSync = syncState.lastSyncAt

(***************************************************************************)
(* Properties of applying a sync result (checked under SpecSync)           *)
(***************************************************************************)

\* the syncPostIts call c returns with success and its result is applied
SyncResultApplied(c) ==
    (\E f \in FailPoints : SyncUpload(c, f)) /\ returned'.success

\* every note the call was given is in the collection afterwards, in a
\* version that is not older than the one the call was given
InvokedNotesKept(c) ==
    \A n \in AsSet(calls[c].local) :
        \E m \in AsSet(postIts') :
            m.id = n.id /\ m.updatedAt >= n.updatedAt

\* no note the call was given is older afterwards than it was just before
\* the result was applied
InvokedNotesNotOlder(c) ==
    \A n \in AsSet(calls[c].local) :
        \A k \in AsSet(postIts), m \in AsSet(postIts') :
            (k.id = n.id /\ m.id = n.id) => m.updatedAt >= k.updatedAt

\* C40: applying a successful sync result never removes a note from the
\* local collection: every id that was in the collection when the sync was
\* invoked is in it afterwards, and for each such id the note's updatedAt is
\* not smaller than before.
C40_ResultKeepsNotes ==
    [][\A c \in 1..MaxCalls :
           SyncResultApplied(c) =>
               (InvokedNotesKept(c) /\ InvokedNotesNotOlder(c))]_vars

\* the part of C40 that holds: measured against the collection the sync was
\* invoked with, no id is lost and no updatedAt goes down
ResultKeepsInvokedNotes ==
    [][\A c \in 1..MaxCalls :
           SyncResultApplied(c) => InvokedNotesKept(c)]_vars

(***************************************************************************)
(* Properties of the manual operations (checked under SpecManual)          *)
(***************************************************************************)
\* nothing the claim names was changed and no Drive request was made
NothingChanged ==
    UNCHANGED <<syncState, noteVars, driveVars, calls, uploadCall,
                downloadCall, isSyncingRef>>

\* C13: when isConnected is false, syncNow and uploadBackup return
\* success=false with 'Not connected to Google' and downloadBackup returns
\* absent, each with no remote call and with status, lastSyncAt, error and
\* the note collection unchanged.
C13_NotConnectedRefused ==
    [][~syncState.isConnected =>
          /\ (ManualSyncNow \/ AutoSyncTimerFire) =>
                /\ returned'.op = "syncNow"
                /\ ~returned'.success
                /\ returned'.message = "Not connected to Google"
                /\ NothingChanged
          /\ UploadBackupStart =>
                /\ returned'.op = "uploadBackup"
                /\ ~returned'.success
                /\ returned'.message = "Not connected to Google"
                /\ NothingChanged
          /\ DownloadBackupStart =>
                /\ returned'.op = "downloadBackup"
                /\ ~returned'.success
                /\ NothingChanged]_vars

\* C13 witness: uploadBackup was just refused on a disconnected hook that
\* holds a token and notes to upload
C13_Witness ==
    /\ ~syncState.isConnected
    /\ returned.op = "uploadBackup"
    /\ returned.message = "Not connected to Google"
    /\ hasToken
    /\ postIts # <<>>

\* C15: whenever status becomes SUCCESS or ERROR through an operation of the
\* orchestrator, and no further operation is started, status eventually
\* becomes IDLE again.
C15_StatusRevertsToIdle ==
    (syncState.status \in {SUCCESS, ERROR}) ~> (syncState.status = IDLE)

\* the same for the statuses that a sync set: a sync that has completed
\* always has its 3 s timer pending or about to be set
SyncStatusReverts ==
    (syncState.status \in {SUCCESS, ERROR} /\ manualOps = 0)
        ~> (syncState.status = IDLE)

(***************************************************************************)
(* Properties of SyncProvider (checked under SpecProvider)                 *)
(***************************************************************************)
\* C11: in SyncProvider two syncNow calls issued before the first one has
\* completed, also before the provider has rendered again, never both reach
\* GoogleDriveService.syncPostIts.
C11_ProviderSyncsSerialized == Cardinality(PInFlight) <= 1

====
